---- MODULE Spec2Model ----
(***************************************************************************)
(* State-machine model of the space-game simulation core:                  *)
(*   - ObjectPool / PoolManager        (lib/game/utils/objectPool.ts)      *)
(*   - the zustand game store          (lib/stores/gameStore.ts)           *)
(*   - the frame loop of GameCanvas    (components/game/GameCanvas.tsx)    *)
(*   - CollisionSystem, EnemySystem, ShieldSystem (lib/game/systems)       *)
(*                                                                         *)
(* Numbers.  Health and shield values are fixed-point: one model unit is   *)
(* 1/2000 of a health point, so that shieldRegenRate * deltaTime / 1000    *)
(* (0.5 points per second) is exactly deltaTime units.  Times are in ms.   *)
(* Geometry (positions, overlap tests, playfield bounds) is not tracked:   *)
(* every position-dependent test of the code is an input of the step.      *)
(***************************************************************************)
EXTENDS Integers, Sequences, FiniteSets, TLC

VARIABLES
    isRunning,      \* GameState.isRunning
    isPaused,       \* GameState.isPaused
    score,          \* GameState.score
    lives,          \* GameState.lives
    level,          \* GameState.level
    gameTime,       \* GameState.gameTime
    player,         \* PlayerEntity | null
    enemies,        \* EnemyEntity[]
    bullets,        \* BulletEntity[]
    keys,           \* InputState.keys
    enemyPool,      \* ObjectPool<EnemyEntity>   (poolManager 'enemies')
    bulletPool,     \* ObjectPool<BulletEntity>  (poolManager 'bullets')
    timers,         \* pending respawn setTimeout callbacks (due times)
    now,            \* requestAnimationFrame clock, ms since page load
    lastTime,       \* GameCanvas lastTimeRef
    lastShotTime,   \* GameCanvas lastShotTimeRef
    lastSpawnTime,  \* EnemySystem.lastSpawnTime
    spawnInterval,  \* EnemySystem.spawnInterval
    hist            \* observation of the last step (history, not program state)

vars == <<isRunning, isPaused, score, lives, level, gameTime, player,
          enemies, bullets, keys, enemyPool, bulletPool, timers, now, lastTime,
          lastShotTime, lastSpawnTime, spawnInterval, hist>>

----------------------------------------------------------------------------
(* Bounds of the model *)

\* pre-allocated instances of a pool (scaled down from 100 / 50)
PoolInitialSize == 1
\* maximum size of a pool's free list (scaled down from 300 / 150)
PoolMaxSize == 2
\* instances a pool may create in the stand-alone pool specification
MaxCreated == 4
\* last instant of the animation clock, ms
MaxNow == 4000
\* Date.now() at page load, ms (Date.now() = EpochMs + animation clock)
EpochMs == 100000
\* time between two animation callbacks, ms
FrameMs == 1000
\* largest floor(penetrationDepth / 10) of a shield breach
MaxDepthBonus == 0
\* |score| the stand-alone score specification is followed up to
MaxScore == 1300
\* instances a pool may create in the instance-reuse specification
MaxReused == 2

NULL == [null |-> TRUE]

\* fixed-point representation of p health points
Pts(p) == 2000 * p

----------------------------------------------------------------------------
(* Sequence helpers (Array.prototype) *)

\* Array.prototype.filter
RECURSIVE SelectSeqBy(_, _)
SelectSeqBy(s, keep) ==
    IF s = <<>> THEN <<>>
    ELSE IF keep[1] THEN <<Head(s)>> \o SelectSeqBy(Tail(s), Tail(keep))
         ELSE SelectSeqBy(Tail(s), Tail(keep))

\* Array.prototype.indexOf, 0 when absent (the code's -1)
indexOf(s, x) ==
    IF \E i \in 1..Len(s) : s[i] = x
    THEN CHOOSE i \in 1..Len(s) : s[i] = x /\ \A j \in 1..(i-1) : s[j] # x
    ELSE 0

\* Array.prototype.splice(index, 1)
splice1(s, i) == SubSeq(s, 1, i-1) \o SubSeq(s, i+1, Len(s))

Range(s) == {s[i] : i \in 1..Len(s)}

----------------------------------------------------------------------------
(* ObjectPool.  An instance is identified by a positive number; `created`  *)
(* counts the calls of createFn, so createFn returns instance created+1.   *)

\* new ObjectPool(createFn, resetFn, initialSize, maxSize)
ObjectPool(initialSize) ==
    [pool |-> [i \in 1..initialSize |-> i], active |-> <<>>, created |-> initialSize]

\* the instance get() returns
getObj(p) == IF Len(p.pool) > 0 THEN p.pool[Len(p.pool)] ELSE p.created + 1

\* ObjectPool.get(): pop from the free list or create; push on active
get(p) ==
    IF Len(p.pool) > 0
    THEN [p EXCEPT !.pool = SubSeq(p.pool, 1, Len(p.pool) - 1),
                   !.active = Append(p.active, p.pool[Len(p.pool)])]
    ELSE [p EXCEPT !.created = p.created + 1,
                   !.active = Append(p.active, p.created + 1)]

\* a release() that forgets to look the instance up in the active list
releaseUnchecked(p, obj) ==
    [p EXCEPT !.pool = IF Len(p.pool) < PoolMaxSize THEN Append(p.pool, obj) ELSE p.pool]

\* ObjectPool.release(obj)
release(p, obj) ==
    LET index == indexOf(p.active, obj) IN
    IF index # 0
    THEN [p EXCEPT !.active = splice1(p.active, index),
                   !.pool = IF Len(p.pool) < PoolMaxSize THEN Append(p.pool, obj) ELSE p.pool]
    ELSE p

\* ObjectPool.releaseAll(): pop active from the end, push while under maxSize
RECURSIVE releaseAll(_)
releaseAll(p) ==
    IF Len(p.active) > 0
    THEN releaseAll([p EXCEPT
            !.active = SubSeq(p.active, 1, Len(p.active) - 1),
            !.pool = IF Len(p.pool) < PoolMaxSize
                     THEN Append(p.pool, p.active[Len(p.active)]) ELSE p.pool])
    ELSE p

\* ObjectPool.clear()
clear(p) == [p EXCEPT !.pool = <<>>, !.active = <<>>]

\* ObjectPool.getStats()
getStats(p) ==
    [poolSize |-> Len(p.pool), activeSize |-> Len(p.active),
     totalSize |-> Len(p.pool) + Len(p.active)]

----------------------------------------------------------------------------
(* Game store (zustand).  An operator takes the store-and-systems record   *)
(* built by World below and returns the record after the call.             *)

\* defaultConfig
configMaxBullets == 50
shieldRegenDelay == 3000
shieldMaxHealth == Pts(100)
playerMaxHealth == Pts(100)
initialLives == 3
\* handlePlayerDestroyed: setTimeout(..., 2000)
respawnDelay == 2000
\* GameCanvas: shootCooldown
shootCooldown == 150

\* Date.now()
DateNow(t) == EpochMs + t

\* createPlayer(): the PlayerEntity literal
newPlayer ==
    [active |-> TRUE, pos |-> "spawn", health |-> playerMaxHealth,
     shieldHealth |-> shieldMaxHealth, shieldActive |-> TRUE,
     lastShieldDamageTime |-> 0]

createPlayer(w) == [w EXCEPT !.player = newPlayer]

\* initializeGame(): set({...}) then createPlayer()
initializeGame(w) ==
    createPlayer([w EXCEPT !.isRunning = FALSE, !.isPaused = FALSE, !.score = 0,
                           !.lives = initialLives, !.level = 1, !.gameTime = 0,
                           !.enemies = <<>>, !.bullets = <<>>])

startGame(w) == [w EXCEPT !.isRunning = TRUE, !.isPaused = FALSE]

\* a pauseGame() written as a toggle
pauseGameToggle(w) == [w EXCEPT !.isPaused = ~w.isPaused]

pauseGame(w) == [w EXCEPT !.isPaused = TRUE]

resumeGame(w) == [w EXCEPT !.isPaused = FALSE]

endGame(w) == [w EXCEPT !.isRunning = FALSE, !.isPaused = FALSE]

resetGame(w) == initializeGame(w)

Max(a, b) == IF a > b THEN a ELSE b
Min(a, b) == IF a < b THEN a ELSE b

updatePlayerPosition(w, pos) ==
    IF w.player # NULL THEN [w EXCEPT !.player.pos = pos] ELSE w

\* an updatePlayerHealth() without the lower clamp
updatePlayerHealthNoFloor(w, health) ==
    IF w.player # NULL
    THEN [w EXCEPT !.player.health = Min(health, playerMaxHealth)]
    ELSE w

updatePlayerHealth(w, health) ==
    IF w.player # NULL
    THEN [w EXCEPT !.player.health = Max(0, Min(health, playerMaxHealth))]
    ELSE w

updatePlayerShield(w, shieldHealth) ==
    IF w.player # NULL
    THEN [w EXCEPT !.player.shieldHealth = Max(0, Min(shieldHealth, shieldMaxHealth)),
                   !.player.shieldActive = (shieldHealth > 0)]
    ELSE w

\* a regenerateShield() that does not wait for the regeneration delay
regenerateShieldNoDelay(w, deltaTime, t) ==
    IF w.player = NULL \/ ~w.player.shieldActive THEN w
    ELSE IF w.player.shieldHealth < shieldMaxHealth
         THEN updatePlayerShield(w, Min(shieldMaxHealth, w.player.shieldHealth + deltaTime))
         ELSE w

\* regenerateShield(deltaTime) at animation time t; shieldRegenRate * deltaTime
\* / 1000 is deltaTime model units
regenerateShield(w, deltaTime, t) ==
    IF w.player = NULL \/ ~w.player.shieldActive THEN w
    ELSE IF DateNow(t) - w.player.lastShieldDamageTime >= shieldRegenDelay
            /\ w.player.shieldHealth < shieldMaxHealth
         THEN updatePlayerShield(w, Min(shieldMaxHealth, w.player.shieldHealth + deltaTime))
         ELSE w

\* a damageShield() that leaves shieldActive as it was
damageShieldKeepActive(w, damage, t) ==
    IF w.player = NULL THEN w
    ELSE [w EXCEPT !.player.shieldHealth = Max(0, w.player.shieldHealth - damage),
                   !.player.lastShieldDamageTime = DateNow(t)]

damageShield(w, damage, t) ==
    IF w.player = NULL THEN w
    ELSE LET newShieldHealth == Max(0, w.player.shieldHealth - damage) IN
         [w EXCEPT !.player.shieldHealth = newShieldHealth,
                   !.player.shieldActive = (newShieldHealth > 0),
                   !.player.lastShieldDamageTime = DateNow(t)]

addEnemy(w, enemy) == [w EXCEPT !.enemies = Append(w.enemies, enemy)]

removeEnemy(w, id) ==
    [w EXCEPT !.enemies = SelectSeq(w.enemies, LAMBDA e : e.id # id)]

\* addBullet(): append, then drop the oldest when over config.maxBullets
addBullet(w, bullet) ==
    LET bs == Append(w.bullets, bullet) IN
    [w EXCEPT !.bullets = IF Len(bs) > configMaxBullets THEN Tail(bs) ELSE bs]

removeBullet(w, id) ==
    [w EXCEPT !.bullets = SelectSeq(w.bullets, LAMBDA b : b.id # id)]

\* an updateScore() that forgets to recompute the level
updateScoreKeepLevel(w, points) == [w EXCEPT !.score = w.score + points]

\* updateScore(points): TLC's \div rounds down, as Math.floor does
updateScore(w, points) ==
    LET newScore == w.score + points IN
    [w EXCEPT !.score = newScore, !.level = (newScore \div 1000) + 1]

updateLives(w, n) == [w EXCEPT !.lives = Max(0, n)]

updateGameTime(w, deltaTime) == [w EXCEPT !.gameTime = w.gameTime + deltaTime]

\* an updateEntities() that leaves the bullets' lifespan alone
updateEntitiesKeepLifespan(w, deltaTime, bOut, eOut) ==
    LET mb == [i \in 1..Len(w.bullets) |-> [w.bullets[i] EXCEPT !.obj = 0]]
        me == [i \in 1..Len(w.enemies) |-> [w.enemies[i] EXCEPT !.obj = 0]]
    IN [w EXCEPT
          !.bullets = SelectSeqBy(mb, [i \in 1..Len(mb) |-> mb[i].lifespan > 0 /\ i \notin bOut]),
          !.enemies = SelectSeqBy(me, [i \in 1..Len(me) |-> i \notin eOut /\ me[i].active])]

\* updateEntities(deltaTime): every bullet and enemy is replaced by a copy
\* ({...entity}), so obj (the pooled instance the entry is) becomes 0.
\* bOut / eOut: indices whose moved position fails the y-bounds test.
updateEntities(w, deltaTime, bOut, eOut) ==
    LET mb == [i \in 1..Len(w.bullets) |->
                 [w.bullets[i] EXCEPT !.obj = 0, !.lifespan = @ - deltaTime]]
        me == [i \in 1..Len(w.enemies) |-> [w.enemies[i] EXCEPT !.obj = 0]]
    IN [w EXCEPT
          !.bullets = SelectSeqBy(mb, [i \in 1..Len(mb) |-> mb[i].lifespan > 0 /\ i \notin bOut]),
          !.enemies = SelectSeqBy(me, [i \in 1..Len(me) |-> i \notin eOut /\ me[i].active])]

cleanupInactiveEntities(w) ==
    [w EXCEPT !.enemies = SelectSeq(w.enemies, LAMBDA e : e.active),
              !.bullets = SelectSeq(w.bullets, LAMBDA b : b.active)]

----------------------------------------------------------------------------
(* EnemySystem.  health and damage of entities are in model units (Pts);   *)
(* shieldDamage stays in points because the score penalty is computed from *)
(* it.                                                                     *)

AiTypes == <<"straight", "zigzag", "seeking", "circling">>

\* an updateDifficulty() without the 500 ms floor
updateDifficultyNoFloor(w, lvl) == [w EXCEPT !.spawnInterval = 2000 - (lvl * 100)]

\* updateDifficulty(level)
updateDifficulty(w, lvl) == [w EXCEPT !.spawnInterval = Max(500, 2000 - (lvl * 100))]

\* createEnemy: possibleTypes = enemyTypes.slice(0, typeIndex + 1)
possibleTypes(lvl) ==
    {AiTypes[i] : i \in 1..(Min(lvl \div 2, Len(AiTypes) - 1) + 1)}

\* createEnemy: health by type
enemyHealth(aiType) ==
    CASE aiType = "straight" -> Pts(30) [] aiType = "zigzag" -> Pts(40)
      [] aiType = "seeking" -> Pts(60) [] aiType = "circling" -> Pts(80)

\* createEnemy: damage by type
enemyDamage(aiType) ==
    CASE aiType = "straight" -> Pts(20) [] aiType = "zigzag" -> Pts(25)
      [] aiType = "seeking" -> Pts(35) [] aiType = "circling" -> Pts(40)

\* a fresh entity id (`enemy-${Date.now()}-${random}`): an id no live or
\* captured entity carries
freshId(used) == CHOOSE n \in 1..(Cardinality(used) + 1) : n \notin used

\* createEnemy(level): lease from the pool, fill in, addEnemy
createEnemy(w, lvl, aiType, used, t) ==
    LET enemy == [id |-> freshId(used), obj |-> getObj(w.enemyPool), active |-> TRUE,
                  aiType |-> aiType, health |-> enemyHealth(aiType),
                  damage |-> enemyDamage(aiType), shieldDamage |-> 10,
                  spawnTime |-> DateNow(t)]
    IN addEnemy([w EXCEPT !.enemyPool = get(w.enemyPool)], enemy)

\* spawnEnemies(currentTime, level)
spawnDue(w, t) == t - w.lastSpawnTime >= w.spawnInterval

spawnEnemies(w, t, lvl, aiType, used) ==
    IF spawnDue(w, t)
    THEN [createEnemy(w, lvl, aiType, used, t) EXCEPT !.lastSpawnTime = t]
    ELSE w

\* updateEnemies(enemies, ...): `enemies` is the array the loop closure holds;
\* off: ids of its enemies whose moved position is off-screen
RECURSIVE updateEnemies(_, _, _)
updateEnemies(w, captured, off) ==
    IF captured = <<>> THEN w
    ELSE updateEnemies(IF Head(captured).id \in off THEN removeEnemy(w, Head(captured).id) ELSE w,
                       Tail(captured), off)

\* JavaScript % (sign of the dividend)
JsRem(a, b) == IF a >= 0 THEN a % b ELSE 0 - ((0 - a) % b)

\* createEnemyBullet(enemy): a literal, not a pooled instance
createEnemyBullet(w, enemy, id) ==
    addBullet(w, [id |-> id, obj |-> 0, active |-> TRUE, owner |-> "enemy",
                  damage |-> (enemy.damage \div 2), lifespan |-> 4000])

\* updateEnemyShooting(enemies, currentTime): currentTime is the animation
\* clock, enemy.spawnTime is Date.now()
enemyShoots(enemy, t) ==
    /\ enemy.aiType \in {"seeking", "circling"}
    /\ LET timeSinceSpawn == t - enemy.spawnTime
           shootInterval == IF enemy.aiType = "seeking" THEN 2000 ELSE 3000
       IN timeSinceSpawn > 1000 /\ JsRem(timeSinceSpawn, shootInterval) < 100

RECURSIVE updateEnemyShooting(_, _, _)
updateEnemyShooting(w, captured, t) ==
    IF captured = <<>> THEN w
    ELSE updateEnemyShooting(
            IF enemyShoots(Head(captured), t)
            THEN createEnemyBullet(w, Head(captured),
                                   freshId({w.bullets[i].id : i \in 1..Len(w.bullets)}))
            ELSE w,
            Tail(captured), t)

----------------------------------------------------------------------------
(* CollisionSystem.  The pass works on the arrays and the player object it *)
(* read at its start (bs, es, pl); enemy objects are mutated in place, so  *)
(* the pass record c carries their health and active flag by index of es,  *)
(* next to the store c.w.                                                  *)

\* ascending sequence of a set of numbers
RECURSIVE SortedSeq(_)
SortedSeq(S) ==
    IF S = {} THEN <<>>
    ELSE LET m == CHOOSE x \in S : \A y \in S : x <= y IN <<m>> \o SortedSeq(S \ {m})

\* enemy.health = h on the object stored under id
setEnemyHealth(w, id, h) ==
    [w EXCEPT !.enemies = [i \in 1..Len(w.enemies) |->
        IF w.enemies[i].id = id THEN [w.enemies[i] EXCEPT !.health = h] ELSE w.enemies[i]]]

\* destroyEnemy: points by aiType
killPoints(aiType) ==
    CASE aiType = "straight" -> 100 [] aiType = "zigzag" -> 150
      [] aiType = "seeking" -> 200 [] aiType = "circling" -> 250

\* a destroyEnemy() that awards 100 points whatever the aiType
destroyEnemyFlatPoints(c, es, j) ==
    LET w1 == updateScore(c.w, 100)
        w2 == removeEnemy(w1, es[j].id)
    IN [c EXCEPT !.w = [w2 EXCEPT !.enemyPool = release(w2.enemyPool, es[j].obj)],
                 !.ea[j] = FALSE]

\* destroyEnemy(enemy)
destroyEnemy(c, es, j) ==
    LET w1 == updateScore(c.w, killPoints(es[j].aiType))
        w2 == removeEnemy(w1, es[j].id)
    IN [c EXCEPT !.w = [w2 EXCEPT !.enemyPool = release(w2.enemyPool, es[j].obj)],
                 !.ea[j] = FALSE]

\* handlePlayerDestroyed() at animation time t
handlePlayerDestroyed(w, t) ==
    LET newLives == w.lives - 1
        w1 == updateLives(w, newLives)
    IN IF newLives <= 0
       THEN [endGame(w1) EXCEPT !.gameOver = TRUE]
       ELSE [w1 EXCEPT !.timers = Append(w1.timers, t + respawnDelay)]

\* the respawn callback of handlePlayerDestroyed (its gameState.player is the
\* player of the snapshot taken at the destruction, never null)
respawn(w) == updatePlayerPosition(updatePlayerHealth(w, playerMaxHealth), "spawn")

\* handleBulletEnemyCollision(bullet, enemy)
handleBulletEnemyCollision(c, bs, es, i, j) ==
    LET h == c.eh[j] - bs[i].damage
        w1 == setEnemyHealth(c.w, es[j].id, h)
        w2 == removeBullet(w1, bs[i].id)
        c1 == [c EXCEPT !.eh[j] = h,
                        !.w = [w2 EXCEPT !.bulletPool = release(w2.bulletPool, bs[i].obj)]]
    IN IF h <= 0 THEN destroyEnemy(c1, es, j) ELSE c1

\* handleBulletPlayerCollision(bullet, player)
handleBulletPlayerCollision(w, pl, bullet, t) ==
    LET newHealth == pl.health - bullet.damage
        w1 == updatePlayerHealth(w, newHealth)
        w2 == removeBullet(w1, bullet.id)
        w3 == [w2 EXCEPT !.bulletPool = release(w2.bulletPool, bullet.obj)]
    IN IF newHealth <= 0 THEN handlePlayerDestroyed(w3, t) ELSE w3

\* handlePlayerEnemyCollision(player, enemy)
handlePlayerEnemyCollision(c, pl, es, j, t) ==
    LET newPlayerHealth == pl.health - es[j].damage
        h == c.eh[j] - Pts(50)
        w1 == setEnemyHealth(updatePlayerHealth(c.w, newPlayerHealth), es[j].id, h)
        c1 == [c EXCEPT !.eh[j] = h, !.w = w1]
        c2 == IF h <= 0 THEN destroyEnemy(c1, es, j) ELSE c1
    IN IF newPlayerHealth <= 0
       THEN [c2 EXCEPT !.w = handlePlayerDestroyed(c2.w, t)]
       ELSE c2

\* nearbyEnemies.forEach of checkBulletEnemyCollisions for bullet i
RECURSIVE bulletEnemyLoop(_, _, _, _, _)
bulletEnemyLoop(c, bs, es, i, js) ==
    IF js = <<>> THEN c
    ELSE bulletEnemyLoop(handleBulletEnemyCollision(c, bs, es, i, Head(js)), bs, es, i, Tail(js))

\* checkBulletEnemyCollisions: hitBE holds the pairs <<i, j>> for which enemy j
\* is retrieved for bullet i and checkEntityCollision holds
RECURSIVE checkBulletEnemyCollisions(_, _, _, _, _)
checkBulletEnemyCollisions(c, bs, es, is, hitBE) ==
    IF is = <<>> THEN c
    ELSE LET i == Head(is)
             nearby == {j \in 1..Len(es) : <<i, j>> \in hitBE /\ c.ea[j]}
         IN checkBulletEnemyCollisions(bulletEnemyLoop(c, bs, es, i, SortedSeq(nearby)),
                                       bs, es, Tail(is), hitBE)

\* checkBulletPlayerCollisions: is = the enemy bullets that overlap the player
RECURSIVE checkBulletPlayerCollisions(_, _, _, _, _)
checkBulletPlayerCollisions(w, pl, bs, is, t) ==
    IF is = <<>> THEN w
    ELSE checkBulletPlayerCollisions(handleBulletPlayerCollision(w, pl, bs[Head(is)], t),
                                     pl, bs, Tail(is), t)

\* checkPlayerEnemyCollisions: js = the retrieved, active, overlapping enemies
RECURSIVE checkPlayerEnemyCollisions(_, _, _, _, _)
checkPlayerEnemyCollisions(c, pl, es, js, t) ==
    IF js = <<>> THEN c
    ELSE checkPlayerEnemyCollisions(handlePlayerEnemyCollision(c, pl, es, Head(js), t),
                                    pl, es, Tail(js), t)

\* a CollisionSystem.update() whose player-enemy pass does not filter on
\* the enemies' active flag
collisionUpdateNoFilter(w, hitBE, hitBP, hitPE, t) ==
    IF w.player = NULL \/ ~w.player.active THEN w
    ELSE LET pl == w.player
             es == w.enemies
             bs == w.bullets
             c0 == [w |-> w, eh |-> [j \in 1..Len(es) |-> es[j].health],
                    ea |-> [j \in 1..Len(es) |-> es[j].active]]
             playerBullets == {i \in 1..Len(bs) : bs[i].active /\ bs[i].owner = "player"}
             enemyBullets == {i \in 1..Len(bs) : bs[i].active /\ bs[i].owner = "enemy"}
             c1 == checkBulletEnemyCollisions(c0, bs, es, SortedSeq(playerBullets), hitBE)
             w2 == checkBulletPlayerCollisions(c1.w, pl, bs, SortedSeq(enemyBullets \cap hitBP), t)
             c2 == [c1 EXCEPT !.w = w2]
             c3 == checkPlayerEnemyCollisions(c2, pl, es, SortedSeq(hitPE), t)
         IN cleanupInactiveEntities(c3.w)

\* CollisionSystem.update()
collisionUpdate(w, hitBE, hitBP, hitPE, t) ==
    IF w.player = NULL \/ ~w.player.active THEN w
    ELSE LET pl == w.player
             es == w.enemies
             bs == w.bullets
             c0 == [w |-> w, eh |-> [j \in 1..Len(es) |-> es[j].health],
                    ea |-> [j \in 1..Len(es) |-> es[j].active]]
             playerBullets == {i \in 1..Len(bs) : bs[i].active /\ bs[i].owner = "player"}
             enemyBullets == {i \in 1..Len(bs) : bs[i].active /\ bs[i].owner = "enemy"}
             c1 == checkBulletEnemyCollisions(c0, bs, es, SortedSeq(playerBullets), hitBE)
             w2 == checkBulletPlayerCollisions(c1.w, pl, bs, SortedSeq(enemyBullets \cap hitBP), t)
             c2 == [c1 EXCEPT !.w = w2]
             c3 == checkPlayerEnemyCollisions(c2, pl, es,
                       SortedSeq({j \in hitPE : c2.ea[j]}), t)
         IN cleanupInactiveEntities(c3.w)

----------------------------------------------------------------------------
(* ShieldSystem *)

\* getDefaultShieldDamage(aiType)
getDefaultShieldDamage(aiType) ==
    CASE aiType = "straight" -> 8 [] aiType = "zigzag" -> 12
      [] aiType = "seeking" -> 15 [] aiType = "circling" -> 18 [] OTHER -> 10

\* a handleShieldBreach() that charges the breach and leaves the enemy alive
handleShieldBreachKeepEnemy(w, enemy, depthBonus, t) ==
    LET damage == (IF enemy.shieldDamage # 0 THEN enemy.shieldDamage
                   ELSE getDefaultShieldDamage(enemy.aiType)) + depthBonus
        w1 == damageShield(w, Pts(damage), t)
    IN updateScore(w1, 0 - (damage * 2))

\* handleShieldBreach(enemy); depthBonus = floor(penetrationDepth / 10)
handleShieldBreach(w, enemy, depthBonus, t) ==
    LET damage == (IF enemy.shieldDamage # 0 THEN enemy.shieldDamage
                   ELSE getDefaultShieldDamage(enemy.aiType)) + depthBonus
        w1 == damageShield(w, Pts(damage), t)
        w2 == removeEnemy(w1, enemy.id)
        w3 == [w2 EXCEPT !.enemyPool = release(w2.enemyPool, enemy.obj)]
    IN updateScore(w3, 0 - (damage * 2))

\* checkShieldBreaches(enemies): breach[j] = -1 when enemy j has not reached
\* the shield zone, else floor(penetrationDepth / 10)
RECURSIVE checkShieldBreaches(_, _, _, _, _)
checkShieldBreaches(w, es, j, breach, t) ==
    IF j > Len(es) THEN w
    ELSE checkShieldBreaches(
            IF es[j].active /\ breach[j] >= 0
            THEN handleShieldBreach(w, es[j], breach[j], t) ELSE w,
            es, j + 1, breach, t)

\* ShieldSystem.update(deltaTime)
shieldUpdate(w, deltaTime, breach, t) ==
    IF w.player = NULL THEN w
    ELSE LET pl == w.player
             w1 == checkShieldBreaches(w, w.enemies, 1, breach, t)
             w2 == regenerateShield(w1, deltaTime, t)
         IN IF pl.shieldHealth <= 0 /\ pl.shieldActive THEN endGame(w2) ELSE w2

----------------------------------------------------------------------------
(* GameCanvas *)

\* createPlayerBullet(x, y): a pooled instance
createPlayerBullet(w) ==
    LET bullet == [id |-> freshId({w.bullets[i].id : i \in 1..Len(w.bullets)}),
                   obj |-> getObj(w.bulletPool), active |-> TRUE, owner |-> "player",
                   damage |-> Pts(25), lifespan |-> 3000]
    IN addBullet([w EXCEPT !.bulletPool = get(w.bulletPool)], bullet)

\* updatePlayer(deltaTime); pl and ks are the player and the keys the loop
\* closure holds
updatePlayer(w, pl, ks, t) ==
    IF pl = NULL THEN w
    ELSE LET w1 == IF "ArrowLeft" \in ks THEN updatePlayerPosition(w, "moved") ELSE w
         IN IF "Space" \in ks /\ DateNow(t) - w1.lastShotTime >= shootCooldown
            THEN [createPlayerBullet(w1) EXCEPT !.lastShotTime = DateNow(t)]
            ELSE w1

\* the frame runs the shield system after the collision pass
frameShieldStep(w, deltaTime, breach, t) == shieldUpdate(w, deltaTime, breach, t)

----------------------------------------------------------------------------
(* The state as one record, and back *)

World ==
    [isRunning |-> isRunning, isPaused |-> isPaused, score |-> score, lives |-> lives,
     level |-> level, gameTime |-> gameTime, player |-> player, enemies |-> enemies,
     bullets |-> bullets, enemyPool |-> enemyPool, bulletPool |-> bulletPool,
     timers |-> timers, lastShotTime |-> lastShotTime, lastSpawnTime |-> lastSpawnTime,
     spawnInterval |-> spawnInterval, gameOver |-> hist.gameOver]

\* the state after a step that leaves the store-and-systems record w; op names
\* the command or callback of the step and obs is what the step observed
CommitObs(w, op, obs) ==
    /\ isRunning' = w.isRunning /\ isPaused' = w.isPaused /\ score' = w.score
    /\ lives' = w.lives /\ level' = w.level /\ gameTime' = w.gameTime
    /\ player' = w.player /\ enemies' = w.enemies /\ bullets' = w.bullets
    /\ enemyPool' = w.enemyPool /\ bulletPool' = w.bulletPool /\ timers' = w.timers
    /\ lastShotTime' = w.lastShotTime /\ lastSpawnTime' = w.lastSpawnTime
    /\ spawnInterval' = w.spawnInterval
    /\ hist' = [pausedAgain |-> (op = "pauseGame" /\ isPaused),
                gameOver |-> w.gameOver, last |-> obs]

Commit(w, op) == CommitObs(w, op, NULL)

NoHist == [pausedAgain |-> FALSE, gameOver |-> FALSE, last |-> NULL]

\* the store as created by create<GameStore>(), pools not yet registered
Created ==
    [isRunning |-> FALSE, isPaused |-> FALSE, score |-> 0, lives |-> initialLives,
     level |-> 1, gameTime |-> 0, player |-> NULL, enemies |-> <<>>, bullets |-> <<>>,
     enemyPool |-> ObjectPool(0), bulletPool |-> ObjectPool(0), timers |-> <<>>,
     lastShotTime |-> 0, lastSpawnTime |-> 0, spawnInterval |-> 2000,
     gameOver |-> FALSE]

\* the mount effect of GameCanvas: initializePools(); initializeGame()
Mounted ==
    initializeGame([Created EXCEPT !.enemyPool = ObjectPool(PoolInitialSize),
                                   !.bulletPool = ObjectPool(PoolInitialSize)])

\* a session in progress: running, one life lost, the player one hit from its
\* destruction, the shield a quarter point under its maximum after an old breach
InProgress ==
    startGame([Mounted EXCEPT !.lives = initialLives - 1, !.player.health = Pts(20),
                              !.player.shieldHealth = shieldMaxHealth - 500])

InitWorld(w, h) ==
    /\ isRunning = w.isRunning /\ isPaused = w.isPaused /\ score = w.score
    /\ lives = w.lives /\ level = w.level /\ gameTime = w.gameTime
    /\ player = w.player /\ enemies = w.enemies /\ bullets = w.bullets
    /\ enemyPool = w.enemyPool /\ bulletPool = w.bulletPool /\ timers = w.timers
    /\ lastShotTime = w.lastShotTime /\ lastSpawnTime = w.lastSpawnTime
    /\ spawnInterval = w.spawnInterval
    /\ keys = {} /\ now = 0 /\ lastTime = 0 /\ hist = h

\* the game as mounted, or a session in progress
Init == InitWorld(Mounted, NoHist) \/ InitWorld(InProgress, NoHist)

----------------------------------------------------------------------------
(* Actions of the game *)

KeyCodes == {"Space", "ArrowLeft"}

\* keydown listeners: handleKeyDown (addKey) and handleKeyPress (Space starts
\* the game when it is not running)
KeyDown(k) ==
    /\ keys' = keys \cup {k}
    /\ Commit(IF k = "Space" /\ ~isRunning THEN startGame(World) ELSE World, "keyDown")
    /\ UNCHANGED <<now, lastTime>>

\* keyup listener: handleKeyUp (removeKey)
KeyUp(k) ==
    /\ k \in keys
    /\ keys' = keys \ {k}
    /\ Commit(World, "keyUp")
    /\ UNCHANGED <<now, lastTime>>

\* the session lifecycle commands of the store
StartGame ==
    /\ Commit(startGame(World), "startGame")
    /\ UNCHANGED <<keys, now, lastTime>>

PauseGame ==
    /\ Commit(pauseGame(World), "pauseGame")
    /\ UNCHANGED <<keys, now, lastTime>>

ResumeGame ==
    /\ Commit(resumeGame(World), "resumeGame")
    /\ UNCHANGED <<keys, now, lastTime>>

\* resetGame(); initializeGame() replaces input.keys by an empty set
ResetGame ==
    /\ keys' = {}
    /\ Commit([resetGame(World) EXCEPT !.gameOver = FALSE], "resetGame")
    /\ UNCHANGED <<now, lastTime>>

\* the respawn callback set by handlePlayerDestroyed fires once it is due
RespawnTimer ==
    /\ timers # <<>> /\ Head(timers) <= now
    /\ Commit(respawn([World EXCEPT !.timers = Tail(timers)]), "respawnTimer")
    /\ UNCHANGED <<keys, now, lastTime>>

\* gameLoop(currentTime) while not running or paused: only re-arms
FrameIdle ==
    /\ ~isRunning \/ isPaused
    /\ now + FrameMs <= MaxNow
    /\ now' = now + FrameMs
    /\ Commit(World, "frameIdle")
    /\ UNCHANGED <<keys, lastTime>>

\* gameLoop(currentTime) on a running, unpaused session, up to the collision
\* pass; the closure holds the player, enemies, level and input of the last
\* render.  bOut, eOut, off: the entities that fail a bounds test; aiType: the
\* random type of a spawned enemy
gameLoopUpdate(w0, ks, t, deltaTime, bOut, eOut, aiType, off) ==
    LET pl == w0.player
        captured == w0.enemies
        lvl == w0.level
        w1 == updateGameTime(w0, deltaTime)
        w2 == updateEntities(w1, deltaTime, bOut, eOut)
        w3 == updatePlayer(w2, pl, ks, t)
        w4 == updateDifficulty(w3, lvl)
        used == {captured[i].id : i \in 1..Len(captured)}
        w5 == spawnEnemies(w4, t, lvl, aiType, used)
    IN IF pl # NULL
       THEN updateEnemyShooting(updateEnemies(w5, captured, off), captured, t)
       ELSE w5

\* one animation callback on a running, unpaused session
Frame ==
    /\ isRunning /\ ~isPaused
    /\ now + FrameMs <= MaxNow
    /\ now' = now + FrameMs
    /\ lastTime' = now'
    /\ LET t == now + FrameMs
           deltaTime == t - lastTime
       IN \E bOut \in SUBSET (1..Len(bullets)), eOut \in SUBSET (1..Len(enemies)),
             aiType \in possibleTypes(level) :
          \E off \in SUBSET {enemies[i].id : i \in (1..Len(enemies)) \ eOut} :
            LET w6 == gameLoopUpdate(World, keys, t, deltaTime, bOut, eOut, aiType, off)
                nb == Len(w6.bullets)
                ne == Len(w6.enemies)
            IN \E hitBE \in SUBSET ({i \in 1..nb : w6.bullets[i].owner = "player"} \X (1..ne)),
                  hitBP \in SUBSET {i \in 1..nb : w6.bullets[i].owner = "enemy"},
                  hitPE \in SUBSET (1..ne) :
                 LET w7 == collisionUpdate(w6, hitBE, hitBP, hitPE, t)
                 IN \E breach \in [1..Len(w7.enemies) -> -1..MaxDepthBonus] :
                      Commit(frameShieldStep(w7, deltaTime, breach, t), "frame")
    /\ UNCHANGED keys

Next ==
    \/ \E k \in KeyCodes : KeyDown(k)
    \/ \E k \in KeyCodes : KeyUp(k)
    \/ StartGame
    \/ PauseGame
    \/ ResumeGame
    \/ ResetGame
    \/ RespawnTimer
    \/ FrameIdle
    \/ Frame

Spec == Init /\ [][Next]_vars

----------------------------------------------------------------------------
(* A pool on its own: any sequence of get(), release(obj) and releaseAll() *)
(* on the enemy pool, release() also of instances that are free, dropped,  *)
(* never created (1..MaxCreated) or foreign (0).                           *)

PoolGet ==
    /\ getObj(enemyPool) <= MaxCreated
    /\ CommitObs([World EXCEPT !.enemyPool = get(enemyPool)], "get",
                 [op |-> "get", obj |-> getObj(enemyPool), held |-> FALSE])
    /\ UNCHANGED <<keys, now, lastTime>>

PoolRelease(obj) ==
    /\ CommitObs([World EXCEPT !.enemyPool = release(enemyPool, obj)], "release",
                 [op |-> "release", obj |-> obj, held |-> obj \in Range(enemyPool.active)])
    /\ UNCHANGED <<keys, now, lastTime>>

PoolReleaseAll ==
    /\ CommitObs([World EXCEPT !.enemyPool = releaseAll(enemyPool)], "releaseAll",
                 [op |-> "releaseAll", obj |-> 0, held |-> FALSE])
    /\ UNCHANGED <<keys, now, lastTime>>

InitPool == InitWorld(Mounted, NoHist)

NextPool ==
    \/ PoolGet
    \/ \E obj \in 0..MaxCreated : PoolRelease(obj)
    \/ PoolReleaseAll

SpecPool == InitPool /\ [][NextPool]_vars

----------------------------------------------------------------------------
(* The score on its own: every caller of updateScore (destroyEnemy with    *)
(* the points of a kill, handleShieldBreach with the penalty of a breach)  *)
(* and resetGame, followed while |score| <= MaxScore.                      *)

KillPoints == {killPoints(AiTypes[i]) : i \in 1..Len(AiTypes)}
\* -(damage * 2) for shieldDamage 10 plus a depth bonus of 0 or 1
BreachPenalties == {0 - ((10 + b) * 2) : b \in 0..1}

\* hist.last.run: the number of 200-point kills made in a row from score 0
ScoreAward(points) ==
    /\ score + points <= MaxScore /\ score + points >= 0 - MaxScore
    /\ CommitObs(updateScore(World, points), "updateScore",
                 [op |-> "updateScore",
                  run |-> IF points = 200 /\ score = 200 * hist.last.run
                          THEN hist.last.run + 1 ELSE 0])
    /\ UNCHANGED <<keys, now, lastTime>>

ScoreReset ==
    /\ CommitObs(resetGame(World), "resetGame", [op |-> "resetGame", run |-> 0])
    /\ UNCHANGED <<keys, now, lastTime>>

InitScore == InitWorld(Mounted, [NoHist EXCEPT !.last = [op |-> "create", run |-> 0]])

NextScore ==
    \/ \E points \in KillPoints : ScoreAward(points)
    \/ \E points \in BreachPenalties : ScoreAward(points)
    \/ ScoreReset

SpecScore == InitScore /\ [][NextScore]_vars

----------------------------------------------------------------------------
(* Hits on the player on their own: a running session whose player has the *)
(* health and shield a game can have left it, hit by enemy bullets and by  *)
(* enemies.  hist.last records the hit and the player before it.           *)

HitHealths == {Pts(100), Pts(20)}
HitShields == {Pts(50), Pts(10), 0}
\* damage of the bullet of a hit
HitDamages == {Pts(20), Pts(30)}
\* the enemy of a contact
ContactTypes == {"straight", "zigzag"}

hitObs(d) ==
    [d |-> d, health |-> player.health, shieldHealth |-> player.shieldHealth,
     shieldActive |-> player.shieldActive]

\* checkBulletPlayerCollisions finds one enemy bullet of damage d on the player
HitBullet(d) ==
    /\ isRunning /\ ~isPaused
    /\ LET bullet == [id |-> freshId({bullets[i].id : i \in 1..Len(bullets)}), obj |-> 0,
                      active |-> TRUE, owner |-> "enemy", damage |-> d, lifespan |-> 4000]
           w1 == addBullet(World, bullet)
       IN CommitObs(handleBulletPlayerCollision(w1, w1.player, bullet, now), "hit", hitObs(d))
    /\ UNCHANGED <<keys, now, lastTime>>

\* checkPlayerEnemyCollisions finds one fresh enemy on the player
HitContact(aiType) ==
    /\ isRunning /\ ~isPaused
    /\ LET w1 == createEnemy(World, level, aiType, {enemies[i].id : i \in 1..Len(enemies)}, now)
           es == w1.enemies
           c0 == [w |-> w1, eh |-> [j \in 1..Len(es) |-> es[j].health],
                  ea |-> [j \in 1..Len(es) |-> es[j].active]]
       IN CommitObs(cleanupInactiveEntities(
                        handlePlayerEnemyCollision(c0, w1.player, es, Len(es), now).w),
                    "hit", hitObs(enemyDamage(aiType)))
    /\ UNCHANGED <<keys, now, lastTime>>

InitHit ==
    \E h \in HitHealths, sh \in HitShields, l \in 1..initialLives :
        InitWorld(startGame([Mounted EXCEPT !.lives = l, !.player.health = h,
                                            !.player.shieldHealth = sh,
                                            !.player.shieldActive = (sh > 0)]),
                  NoHist)

NextHit ==
    \/ \E d \in HitDamages : HitBullet(d)
    \/ \E aiType \in ContactTypes : HitContact(aiType)

SpecHit == InitHit /\ [][NextHit]_vars

----------------------------------------------------------------------------
(* ShieldSystem with the shield-down cascade (the revision whose           *)
(* handleShieldBreach reads player.shieldDown).  The store of that         *)
(* revision keeps PlayerEntity.shieldDown; its three operations below      *)
(* follow the shield state machine: Active (shieldHealth > 0, not down),   *)
(* Down (shieldHealth = 0, down), Active again once regenerated above 0.   *)

\* setShieldDown(down)
setShieldDown(w, down) ==
    IF w.player # NULL THEN [w EXCEPT !.player.shieldDown = down] ELSE w

\* damageShield(damage) of the cascading store: a damage that brings
\* shieldHealth to 0 sets shieldDown and records the time
damageShieldCascade(w, damage, t) ==
    LET w1 == damageShield(w, damage, t) IN
    IF w1.player # NULL /\ w1.player.shieldHealth <= 0 THEN setShieldDown(w1, TRUE) ELSE w1

\* regenerateShield(deltaTime) of the cascading store: after the delay the
\* shield grows, and shieldDown clears once shieldHealth is above 0
regenerateShieldCascade(w, deltaTime, t) ==
    IF w.player = NULL THEN w
    ELSE IF DateNow(t) - w.player.lastShieldDamageTime >= shieldRegenDelay
            /\ w.player.shieldHealth < shieldMaxHealth
         THEN LET newShieldHealth == Min(shieldMaxHealth, w.player.shieldHealth + deltaTime) IN
              [w EXCEPT !.player.shieldHealth = newShieldHealth,
                        !.player.shieldActive = (newShieldHealth > 0),
                        !.player.shieldDown = (@ /\ newShieldHealth <= 0)]
         ELSE w

\* a handleShieldBreach that charges the shield whatever its state
handleShieldBreachShieldOnly(w, enemy, depthBonus, t) ==
    LET damage == (IF enemy.shieldDamage # 0 THEN enemy.shieldDamage
                   ELSE getDefaultShieldDamage(enemy.aiType)) + depthBonus
        w1 == damageShieldCascade(w, Pts(damage), t)
        w2 == removeEnemy(w1, enemy.id)
        w3 == [w2 EXCEPT !.enemyPool = release(w2.enemyPool, enemy.obj)]
    IN updateScore(w3, 0 - (damage * 2))

\* handleShieldBreach(enemy) of the cascading revision
handleShieldBreachCascade(w, enemy, depthBonus, t) ==
    LET damage == (IF enemy.shieldDamage # 0 THEN enemy.shieldDamage
                   ELSE getDefaultShieldDamage(enemy.aiType)) + depthBonus
        newLives == w.lives - 1
        w1 == IF w.player # NULL /\ ~w.player.shieldDown
              THEN damageShieldCascade(w, Pts(damage), t)
              ELSE IF newLives <= 0
                   THEN [endGame(updateLives(w, newLives)) EXCEPT !.gameOver = TRUE]
                   ELSE updateLives(w, newLives)
        w2 == removeEnemy(w1, enemy.id)
        w3 == [w2 EXCEPT !.enemyPool = release(w2.enemyPool, enemy.obj)]
    IN updateScore(w3, 0 - (damage * 2))

\* checkShieldBreaches(enemies) of the cascading revision
RECURSIVE checkShieldBreachesCascade(_, _, _, _, _)
checkShieldBreachesCascade(w, es, j, breach, t) ==
    IF j > Len(es) THEN w
    ELSE checkShieldBreachesCascade(
            IF es[j].active /\ breach[j] >= 0
            THEN handleShieldBreachCascade(w, es[j], breach[j], t) ELSE w,
            es, j + 1, breach, t)

\* ShieldSystem.update(deltaTime) of the cascading revision;
\* handleShieldDepletion is setShieldDown(true)
shieldUpdateCascade(w, deltaTime, breach, t) ==
    IF w.player = NULL THEN w
    ELSE LET pl == w.player
             w1 == checkShieldBreachesCascade(w, w.enemies, 1, breach, t)
             w2 == regenerateShieldCascade(w1, deltaTime, t)
         IN IF pl.shieldHealth <= 0 /\ pl.shieldActive THEN setShieldDown(w2, TRUE) ELSE w2

\* most enemies alive at once in the shield specifications
MaxBreachers == 2

\* an enemy spawns (EnemySystem.createEnemy)
EnemyArrives ==
    /\ isRunning /\ ~isPaused
    /\ Len(enemies) < MaxBreachers
    /\ \E aiType \in possibleTypes(level) :
         Commit(createEnemy(World, level, aiType,
                            {enemies[i].id : i \in 1..Len(enemies)}, now), "spawn")
    /\ UNCHANGED <<keys, now, lastTime>>

\* what a shield update observes: the state before it, the enemies found in
\* the shield zone, and the state wb right after the breach handling
breachObs(breach, wb) ==
    [lives |-> lives, shieldHealth |-> player.shieldHealth,
     shieldActive |-> player.shieldActive,
     down |-> IF "shieldDown" \in DOMAIN player THEN player.shieldDown ELSE FALSE,
     breachers |-> {enemies[j].id : j \in {i \in 1..Len(enemies) : breach[i] >= 0}},
     afterLives |-> wb.lives, afterShieldHealth |-> wb.player.shieldHealth,
     afterRunning |-> wb.isRunning, afterScore |-> wb.score]

\* one frame's shield update of the cascading revision
CascadeFrame ==
    /\ isRunning /\ ~isPaused
    /\ now + FrameMs <= MaxNow
    /\ now' = now + FrameMs
    /\ lastTime' = now'
    /\ \E breach \in [1..Len(enemies) -> -1..MaxDepthBonus] :
         CommitObs(shieldUpdateCascade(World, now' - lastTime, breach, now'), "shield",
                   breachObs(breach, checkShieldBreachesCascade(World, enemies, 1, breach, now')))
    /\ UNCHANGED keys

\* shield health and shield-down flag the cascade specification starts from
CascadeShields == {<<shieldMaxHealth, FALSE>>, <<Pts(10), FALSE>>, <<0, TRUE>>}

\* a running session of the cascading revision
InitCascade ==
    \E sh \in CascadeShields, l \in 1..initialLives, last \in {0, DateNow(0)} :
        LET w == startGame(Mounted)
            pl == [active |-> TRUE, pos |-> "spawn", health |-> playerMaxHealth,
                   shieldHealth |-> sh[1], shieldActive |-> (sh[1] > 0),
                   lastShieldDamageTime |-> last, shieldDown |-> sh[2]]
        IN InitWorld([w EXCEPT !.lives = l, !.player = pl], NoHist)

NextCascade ==
    \/ EnemyArrives
    \/ CascadeFrame

SpecCascade == InitCascade /\ [][NextCascade]_vars

----------------------------------------------------------------------------
(* The shield on its own: a running session whose shield is full, low or   *)
(* depleted, with enemies arriving and the shield update of each frame.    *)

\* one frame's shield update
ShieldFrame ==
    /\ isRunning /\ ~isPaused
    /\ now + FrameMs <= MaxNow
    /\ now' = now + FrameMs
    /\ lastTime' = now'
    /\ \E breach \in [1..Len(enemies) -> -1..MaxDepthBonus] :
         CommitObs(shieldUpdate(World, now' - lastTime, breach, now'), "shield",
                   breachObs(breach, checkShieldBreaches(World, enemies, 1, breach, now')))
    /\ UNCHANGED keys

\* shield health the shield specification starts from
ShieldHealths == {shieldMaxHealth, Pts(10), 0}

\* a running session; the last shield damage is long ago or just now
InitShield ==
    \E sh \in ShieldHealths, last \in {0, DateNow(0)} :
        InitWorld(startGame([Mounted EXCEPT !.player.health = Pts(20),
                                            !.player.shieldHealth = sh,
                                            !.player.shieldActive = (sh > 0),
                                            !.player.lastShieldDamageTime = last]),
                  NoHist)

NextShield == EnemyArrives \/ ShieldFrame

SpecShield == InitShield /\ [][NextShield]_vars

----------------------------------------------------------------------------
(* collision.ts: box tests.  Lengths are in half units, so that the        *)
(* position - size / 2 of an odd size is an integer: Half(v) is v units.   *)

Half(v) == 2 * v

\* a checkAABBCollision() that tests the x axis only
checkAABBCollisionXOnly(a, b) ==
    ~(a.x + a.width < b.x \/ b.x + b.width < a.x)

checkAABBCollision(a, b) ==
    ~(\/ a.x + a.width < b.x
      \/ b.x + b.width < a.x
      \/ a.y + a.height < b.y
      \/ b.y + b.height < a.y)

\* the box of an entity: centred on position, extents size
collisionBox(e) ==
    [x |-> Half(e.position.x) - e.size.x, y |-> Half(e.position.y) - e.size.y,
     width |-> Half(e.size.x), height |-> Half(e.size.y)]

checkEntityCollision(a, b) == checkAABBCollision(collisionBox(a), collisionBox(b))

MaxCoord == 3
MaxSize == 2

\* entities on a small grid: position and size in whole units
GridEntities ==
    [position : [x : 0..MaxCoord, y : 0..MaxCoord], size : [x : 1..MaxSize, y : 1..MaxSize]]

\* checkEntityCollision(a, b) and checkEntityCollision(b, a) for the drawn pair
CheckCollision ==
    /\ hist.last.op = "input"
    /\ hist' = [hist EXCEPT !.last = [op |-> "checkEntityCollision",
                                      a |-> hist.last.a, b |-> hist.last.b,
                                      ab |-> checkEntityCollision(hist.last.a, hist.last.b),
                                      ba |-> checkEntityCollision(hist.last.b, hist.last.a)]]
    /\ UNCHANGED <<isRunning, isPaused, score, lives, level, gameTime, player, enemies,
                   bullets, keys, enemyPool, bulletPool, timers, now, lastTime,
                   lastShotTime, lastSpawnTime, spawnInterval>>

InitCollide ==
    \E a \in GridEntities, b \in GridEntities :
        InitWorld(Mounted, [NoHist EXCEPT !.last = [op |-> "input", a |-> a, b |-> b]])

NextCollide == CheckCollision

SpecCollide == InitCollide /\ [][NextCollide]_vars

----------------------------------------------------------------------------
(* collision.ts: QuadTree.  Lengths are in 1/32 units, so that the halved  *)
(* bounds of every level are integers: Fine(v) is v units.                 *)

Fine(v) == 32 * v

gameWidth == 800
gameHeight == 600
maxObjects == 10
maxLevels == 5

getEntityCollisionBox(entity) ==
    [x |-> Fine(entity.position.x) - Fine(entity.size.x) \div 2,
     y |-> Fine(entity.position.y) - Fine(entity.size.y) \div 2,
     width |-> Fine(entity.size.x), height |-> Fine(entity.size.y)]

\* new QuadTree(bounds, maxObjects, maxLevels, level)
QuadTree(bounds, lvl) == [bounds |-> bounds, level |-> lvl, objects |-> <<>>, nodes |-> <<>>]

\* clear(): the node without objects and without children
quadClear(node) == [node EXCEPT !.objects = <<>>, !.nodes = <<>>]

\* split(): nodes[0..3] are nodes[1..4] here
split(node) ==
    LET subWidth == node.bounds.width \div 2
        subHeight == node.bounds.height \div 2
        x == node.bounds.x
        y == node.bounds.y
        sub(bx, by) == QuadTree([x |-> bx, y |-> by, width |-> subWidth,
                                 height |-> subHeight], node.level + 1)
    IN [node EXCEPT !.nodes = <<sub(x + subWidth, y), sub(x, y),
                                sub(x, y + subHeight), sub(x + subWidth, y + subHeight)>>]

getIndex(node, entity) ==
    LET verticalMidpoint == node.bounds.x + (node.bounds.width \div 2)
        horizontalMidpoint == node.bounds.y + (node.bounds.height \div 2)
        entityBox == getEntityCollisionBox(entity)
        topQuadrant == /\ entityBox.y < horizontalMidpoint
                       /\ entityBox.y + entityBox.height < horizontalMidpoint
        bottomQuadrant == entityBox.y > horizontalMidpoint
    IN IF entityBox.x < verticalMidpoint /\ entityBox.x + entityBox.width < verticalMidpoint
       THEN (IF topQuadrant THEN 1 ELSE IF bottomQuadrant THEN 2 ELSE -1)
       ELSE IF entityBox.x > verticalMidpoint
            THEN (IF topQuadrant THEN 0 ELSE IF bottomQuadrant THEN 3 ELSE -1)
            ELSE -1

RECURSIVE insert(_, _)
RECURSIVE insertRedistribute(_, _)

\* insert(): the while loop that moves this node's objects into its children
insertRedistribute(node, i) ==
    IF i > Len(node.objects) THEN node
    ELSE LET index == getIndex(node, node.objects[i])
         IN IF index # -1
            THEN insertRedistribute(
                     [node EXCEPT !.nodes[index + 1] = insert(@, node.objects[i]),
                                  !.objects = splice1(@, i)], i)
            ELSE insertRedistribute(node, i + 1)

insert(node, entity) ==
    IF Len(node.nodes) > 0 /\ getIndex(node, entity) # -1
    THEN [node EXCEPT !.nodes[getIndex(node, entity) + 1] = insert(@, entity)]
    ELSE LET pushed == [node EXCEPT !.objects = Append(@, entity)]
         IN IF Len(pushed.objects) > maxObjects /\ pushed.level < maxLevels
            THEN insertRedistribute(IF Len(pushed.nodes) = 0 THEN split(pushed) ELSE pushed, 1)
            ELSE pushed

RECURSIVE retrieve(_, _)
retrieve(node, entity) ==
    LET index == getIndex(node, entity)
    IN (IF Len(node.nodes) > 0 /\ index # -1
        THEN retrieve(node.nodes[index + 1], entity) ELSE <<>>) \o node.objects

\* CollisionSystem: new QuadTree({x: 0, y: 0, width: gameWidth, height: gameHeight})
quadTree == QuadTree([x |-> 0, y |-> 0, width |-> Fine(gameWidth),
                      height |-> Fine(gameHeight)], 0)

MaxInserted == 11

\* entities of a scene: an enemy left of the player, a bullet at the top right
SceneEntities ==
    {[position |-> [x |-> 375, y |-> 540], size |-> [x |-> 30, y |-> 30]],
     [position |-> [x |-> 600, y |-> 100], size |-> [x |-> 8, y |-> 16]]}

\* queries: the player at its spawn point, a bullet at the lower left
SceneQueries ==
    {[position |-> [x |-> gameWidth \div 2, y |-> gameHeight - 50],
      size |-> [x |-> 40, y |-> 40]],
     [position |-> [x |-> 370, y |-> 530], size |-> [x |-> 8, y |-> 16]]}

QuadKeep ==
    UNCHANGED <<isRunning, isPaused, score, lives, level, gameTime, player, enemies,
                bullets, keys, enemyPool, bulletPool, timers, now, lastTime,
                lastShotTime, lastSpawnTime, spawnInterval>>

\* quadTree.insert(entity); entities are told apart by their id
QuadInsert(e) ==
    /\ Len(hist.last.inserted) < MaxInserted
    /\ LET entity == [id |-> Len(hist.last.inserted) + 1, position |-> e.position,
                      size |-> e.size]
       IN hist' = [hist EXCEPT !.last = [op |-> "insert",
                                         tree |-> insert(hist.last.tree, entity),
                                         inserted |-> Append(hist.last.inserted, entity),
                                         query |-> NULL, found |-> <<>>]]
    /\ QuadKeep

\* quadTree.retrieve(entity)
QuadRetrieve(q) ==
    /\ hist' = [hist EXCEPT !.last = [op |-> "retrieve", tree |-> hist.last.tree,
                                      inserted |-> hist.last.inserted, query |-> q,
                                      found |-> retrieve(hist.last.tree, q)]]
    /\ QuadKeep

\* quadTree.clear()
QuadClear ==
    /\ hist' = [hist EXCEPT !.last = [op |-> "clear", tree |-> quadClear(hist.last.tree),
                                      inserted |-> <<>>, query |-> NULL, found |-> <<>>]]
    /\ QuadKeep

InitQuad ==
    InitWorld(Mounted, [NoHist EXCEPT !.last = [op |-> "create", tree |-> quadTree,
                                                inserted |-> <<>>, query |-> NULL,
                                                found |-> <<>>]])

NextQuad ==
    \/ \E e \in SceneEntities : QuadInsert(e)
    \/ \E q \in SceneQueries : QuadRetrieve(q)
    \/ QuadClear

SpecQuad == InitQuad /\ [][NextQuad]_vars

----------------------------------------------------------------------------
(* The spawn interval on its own: updateDifficulty() called with any level *)

MaxLevel == 25

\* enemySystem.updateDifficulty(lvl); the call before it is kept for comparison
UpdateDifficulty(lvl) ==
    /\ CommitObs(updateDifficulty(World, lvl), "difficulty",
                 [op |-> "updateDifficulty", level |-> lvl,
                  prevOp |-> hist.last.op, prevLevel |-> hist.last.level,
                  prevInterval |-> spawnInterval])
    /\ UNCHANGED <<keys, now, lastTime>>

InitDifficulty ==
    InitWorld(Mounted, [NoHist EXCEPT !.last = [op |-> "create", level |-> 0,
                                                prevOp |-> "create", prevLevel |-> 0,
                                                prevInterval |-> 0]])

NextDifficulty == \E lvl \in 1..MaxLevel : UpdateDifficulty(lvl)

SpecDifficulty == InitDifficulty /\ [][NextDifficulty]_vars

----------------------------------------------------------------------------
(* One collision pass over a scene: two enemies, two player bullets and    *)
(* two enemy bullets near the player; which boxes overlap is the choice of *)
(* the pass.                                                               *)

\* player health a scene starts with
PassHealths == {Pts(10), playerMaxHealth}

\* the scene: enemy 1 of any kind, fresh or already damaged, enemy 2 a fresh
\* straight one; bullets 1, 2 are the player's, bullets 3, 4 enemy 2's
passScene(l, h, aiType, damaged) ==
    LET w0 == startGame([Mounted EXCEPT !.lives = l, !.player.health = h])
        w1 == createEnemy(w0, 1, aiType, {}, 0)
        w2 == IF damaged THEN setEnemyHealth(w1, w1.enemies[1].id, Pts(20)) ELSE w1
        w3 == createEnemy(w2, 1, "straight", {w2.enemies[1].id}, 0)
        w4 == createPlayerBullet(createPlayerBullet(w3))
        w5 == createEnemyBullet(w4, w4.enemies[2], freshId(Range([i \in 1..2 |-> w4.bullets[i].id])))
    IN createEnemyBullet(w5, w5.enemies[2], freshId(Range([i \in 1..3 |-> w5.bullets[i].id])))

\* what a pass observes: the state before it and the overlaps found
passObs(hitBE, hitBP, hitPE) ==
    [score |-> score, lives |-> lives, health |-> player.health, enemies |-> enemies,
     bullets |-> bullets, hitBE |-> hitBE, hitBP |-> hitBP, hitPE |-> hitPE]

\* collisionSystem.update() of one frame
CollisionPass ==
    /\ isRunning /\ ~isPaused
    /\ hist.last = NULL
    /\ \E hitBE \in SUBSET ({i \in 1..Len(bullets) : bullets[i].owner = "player"}
                              \X (1..Len(enemies))),
          hitBP \in SUBSET {i \in 1..Len(bullets) : bullets[i].owner = "enemy"},
          hitPE \in SUBSET (1..Len(enemies)) :
         CommitObs(collisionUpdate(World, hitBE, hitBP, hitPE, now), "collide",
                   passObs(hitBE, hitBP, hitPE))
    /\ UNCHANGED <<keys, now, lastTime>>

InitPass ==
    \E l \in 1..initialLives, h \in PassHealths, aiType \in Range(AiTypes), damaged \in BOOLEAN :
        InitWorld(passScene(l, h, aiType, damaged), NoHist)

NextPass == CollisionPass

SpecPass == InitPass /\ [][NextPass]_vars

----------------------------------------------------------------------------
(* Destruction and respawn: a running session whose player is hit by enemy *)
(* bullets in the collision pass, the clock, and the respawn callback.     *)

RespawnHealths == {Pts(10), playerMaxHealth}
RespawnShields == {Pts(50), shieldMaxHealth}
RespawnPositions == {"spawn", "moved"}

\* collisionSystem.update() of a frame in which one enemy bullet of damage d
\* overlaps the player
RespawnHit(d) ==
    /\ isRunning /\ ~isPaused
    /\ LET bullet == [id |-> freshId({bullets[i].id : i \in 1..Len(bullets)}), obj |-> 0,
                      active |-> TRUE, owner |-> "enemy", damage |-> d, lifespan |-> 4000]
           w1 == addBullet(World, bullet)
       IN Commit(collisionUpdate(w1, {}, {Len(w1.bullets)}, {}, now), "hit")
    /\ UNCHANGED <<keys, now, lastTime>>

\* time passes with nothing on the player
RespawnWait ==
    /\ isRunning /\ ~isPaused
    /\ now + FrameMs <= MaxNow
    /\ now' = now + FrameMs
    /\ Commit(World, "wait")
    /\ UNCHANGED <<keys, lastTime>>

InitRespawn ==
    \E l \in 1..initialLives, h \in RespawnHealths, sh \in RespawnShields,
       pos \in RespawnPositions :
        InitWorld(startGame([Mounted EXCEPT !.lives = l, !.player.health = h,
                                            !.player.shieldHealth = sh,
                                            !.player.pos = pos]),
                  NoHist)

NextRespawn ==
    \/ RespawnHit(Pts(10))
    \/ RespawnWait
    \/ RespawnTimer

SpecRespawn == InitRespawn /\ [][NextRespawn]_vars

----------------------------------------------------------------------------
(* The cascading ShieldSystem on the store of gameStore.ts: damageShield   *)
(* and regenerateShield are the store's; the player has no shieldDown      *)
(* field until something sets it (undefined reads as false).               *)

\* handleShieldBreach(enemy) of the cascading revision, store actions as in
\* gameStore.ts
handleShieldBreachOnStore(w, enemy, depthBonus, t) ==
    LET damage == (IF enemy.shieldDamage # 0 THEN enemy.shieldDamage
                   ELSE getDefaultShieldDamage(enemy.aiType)) + depthBonus
        newLives == w.lives - 1
        w1 == IF w.player # NULL /\ ~w.player.shieldDown
              THEN damageShield(w, Pts(damage), t)
              ELSE IF newLives <= 0
                   THEN [endGame(updateLives(w, newLives)) EXCEPT !.gameOver = TRUE]
                   ELSE updateLives(w, newLives)
        w2 == removeEnemy(w1, enemy.id)
        w3 == [w2 EXCEPT !.enemyPool = release(w2.enemyPool, enemy.obj)]
    IN updateScore(w3, 0 - (damage * 2))

RECURSIVE checkShieldBreachesOnStore(_, _, _, _, _)
checkShieldBreachesOnStore(w, es, j, breach, t) ==
    IF j > Len(es) THEN w
    ELSE checkShieldBreachesOnStore(
            IF es[j].active /\ breach[j] >= 0
            THEN handleShieldBreachOnStore(w, es[j], breach[j], t) ELSE w,
            es, j + 1, breach, t)

\* ShieldSystem.update(deltaTime) of the cascading revision
shieldUpdateOnStore(w, deltaTime, breach, t) ==
    IF w.player = NULL THEN w
    ELSE LET pl == w.player
             w1 == checkShieldBreachesOnStore(w, w.enemies, 1, breach, t)
             w2 == regenerateShield(w1, deltaTime, t)
         IN IF pl.shieldHealth <= 0 /\ pl.shieldActive THEN setShieldDown(w2, TRUE) ELSE w2

\* one frame's shield update
OnStoreFrame ==
    /\ isRunning /\ ~isPaused
    /\ now + FrameMs <= MaxNow
    /\ now' = now + FrameMs
    /\ lastTime' = now'
    /\ \E breach \in [1..Len(enemies) -> -1..MaxDepthBonus] :
         CommitObs(shieldUpdateOnStore(World, now' - lastTime, breach, now'), "shield",
                   breachObs(breach, checkShieldBreachesOnStore(World, enemies, 1, breach, now')))
    /\ UNCHANGED keys

\* a running session with the shield up, full or low
InitOnStore ==
    \E sh \in {shieldMaxHealth, Pts(10)}, last \in {0, DateNow(0)} :
        LET w == startGame(Mounted)
            pl == [active |-> TRUE, pos |-> "spawn", health |-> playerMaxHealth,
                   shieldHealth |-> sh, shieldActive |-> TRUE,
                   lastShieldDamageTime |-> last, shieldDown |-> FALSE]
        IN InitWorld([w EXCEPT !.player = pl], NoHist)

NextOnStore == EnemyArrives \/ OnStoreFrame

SpecOnStore == InitOnStore /\ [][NextOnStore]_vars

----------------------------------------------------------------------------
(* The animation-frame requests of GameCanvas.  A loop record holds the    *)
(* browser's list of outstanding requests and animationRef.current.  React *)
(* commits a store change, and runs the effects whose dependencies         *)
(* changed, after the handler or callback that made the change returns.    *)

\* a requestAnimationFrame() whose id is not kept in animationRef
requestFrameUntracked(loop) ==
    [loop EXCEPT !.requests = Append(@, freshId(Range(loop.requests) \cup {loop.animationRef}))]

\* animationRef.current = requestAnimationFrame(gameLoop)
requestFrame(loop) ==
    LET id == freshId(Range(loop.requests) \cup {loop.animationRef})
    IN [loop EXCEPT !.requests = Append(@, id), !.animationRef = id]

cancelAnimationFrame(loop, id) ==
    [loop EXCEPT !.requests = SelectSeq(@, LAMBDA r : r # id)]

\* the start-loop effect re-run for a new gameLoop: cleanup, then request
loopEffect(loop) ==
    requestFrame(IF loop.animationRef # 0
                 THEN cancelAnimationFrame(loop, loop.animationRef) ELSE loop)

\* the calls of one update cycle of gameLoop, in the order it makes them;
\* collisionSystem.update() ends with its cleanupInactiveEntities()
gameLoopCalls(w) ==
    <<"updateGameTime", "updateEntities", "updateBackgroundOffset", "updatePlayer",
      "updateDifficulty", "spawnEnemies">>
    \o (IF w.player # NULL THEN <<"updateEnemies", "updateEnemyShooting">> ELSE <<>>)
    \o <<"collisionSystem.update", "cleanupInactiveEntities">>

\* gameLoop(currentTime) and the commit after it;
\* st = [w, loop, lastTime, cycles, calls]
gameLoop(st, t, aiType) ==
    IF ~st.w.isRunning \/ st.w.isPaused
    THEN [st EXCEPT !.loop = requestFrame(@)]
    ELSE LET w6 == gameLoopUpdate(st.w, {}, t, t - st.lastTime, {}, {}, aiType, {})
             w7 == collisionUpdate(w6, {}, {}, {}, t)
         IN [st EXCEPT !.w = w7, !.lastTime = t, !.cycles = @ + 1,
                       !.calls = @ \o gameLoopCalls(st.w),
                       !.loop = loopEffect(requestFrame(@))]

\* the browser runs the callbacks of the requests listed when the frame began
RECURSIVE runCallbacks(_, _, _, _)
runCallbacks(st, ids, t, aiType) ==
    IF ids = <<>> THEN st
    ELSE runCallbacks(gameLoop(st, t, aiType), Tail(ids), t, aiType)

\* an animation frame
AnimationFrame ==
    /\ now + FrameMs <= MaxNow
    /\ now' = now + FrameMs
    /\ \E aiType \in possibleTypes(level) :
         LET st == runCallbacks([w |-> World, lastTime |-> lastTime, cycles |-> 0,
                                 calls |-> <<>>,
                                 loop |-> [hist.last EXCEPT !.requests = <<>>]],
                                hist.last.requests, now', aiType)
         IN /\ CommitObs(st.w, "frame", [op |-> "frame", requests |-> st.loop.requests,
                                         animationRef |-> st.loop.animationRef,
                                         cycles |-> st.cycles, calls |-> st.calls])
            /\ lastTime' = st.lastTime
    /\ UNCHANGED keys

\* a command of the store from an event handler, and the commit after it:
\* isRunning and isPaused are dependencies of gameLoop
LoopCommand(w, op) ==
    /\ CommitObs(w, op,
                 LET loop == IF w.isRunning # isRunning \/ w.isPaused # isPaused
                             THEN loopEffect(hist.last) ELSE hist.last
                 IN [op |-> op, requests |-> loop.requests,
                     animationRef |-> loop.animationRef, cycles |-> 0, calls |-> <<>>])
    /\ UNCHANGED <<keys, now, lastTime>>

LoopStart == LoopCommand(startGame(World), "startGame")
LoopPause == LoopCommand(pauseGame(World), "pauseGame")
LoopResume == LoopCommand(resumeGame(World), "resumeGame")

\* mounted: the start-loop effect has run once
InitLoop ==
    InitWorld(Mounted, [NoHist EXCEPT !.last =
        requestFrame([op |-> "mount", requests |-> <<>>, animationRef |-> 0, cycles |-> 0,
                      calls |-> <<>>])])

NextLoop ==
    \/ AnimationFrame
    \/ LoopStart
    \/ LoopPause
    \/ LoopResume

SpecLoop == InitLoop /\ [][NextLoop]_vars

----------------------------------------------------------------------------
(* Reuse of pooled instances.  hist.last.heap maps an instance of the pool  *)
(* under study (hist.last.kind) to its fields; an instance not yet created  *)
(* holds what createFn will give it.  health and damage are in model units. *)

\* createBulletPool: create function
createBullet ==
    [id |-> 0, position |-> <<0, 0>>, velocity |-> <<0, 0>>, size |-> <<8, 16>>,
     rotation |-> 0, active |-> FALSE, damage |-> Pts(10), owner |-> "player",
     lifespan |-> 3000]

\* createBulletPool: reset function
resetBullet(bullet) ==
    [bullet EXCEPT !.active = FALSE, !.position = <<0, 0>>, !.velocity = <<0, 0>>,
                   !.rotation = 0, !.lifespan = 3000]

\* createEnemyPool: create function
createEnemyInstance ==
    [id |-> 0, position |-> <<0, 0>>, velocity |-> <<0, 0>>, size |-> <<32, 32>>,
     rotation |-> 0, active |-> FALSE, health |-> Pts(30), damage |-> Pts(20),
     aiType |-> "straight", spawnTime |-> 0, shieldDamage |-> 10]

\* createEnemyPool: reset function
resetEnemy(enemy) ==
    [enemy EXCEPT !.active = FALSE, !.position = <<0, 0>>, !.velocity = <<0, 0>>,
                  !.rotation = 0, !.health = Pts(30), !.aiType = "straight",
                  !.spawnTime = 0]

\* createEnemy: size by type
enemySize(aiType) ==
    CASE aiType = "straight" -> <<24, 24>> [] aiType = "zigzag" -> <<28, 28>>
      [] aiType = "seeking" -> <<32, 32>> [] aiType = "circling" -> <<36, 36>>

\* createEnemy: vertical velocity by type and level
enemySpeed(aiType, lvl) ==
    CASE aiType = "straight" -> 80 + (lvl * 10) [] aiType = "zigzag" -> 60 + (lvl * 8)
      [] aiType = "seeking" -> 70 + (lvl * 5) [] aiType = "circling" -> 50 + (lvl * 5)

\* the writes of createPlayerBullet(x, y) to the instance it leased
fillPlayerBullet(bullet, id, x, y) ==
    [bullet EXCEPT !.id = id, !.position = <<x, y>>, !.velocity = <<0, -500>>,
                   !.active = TRUE, !.owner = "player", !.damage = Pts(25),
                   !.lifespan = 3000]

\* the writes of createEnemy(level) to the instance it leased; x and vx are
\* its random numbers
fillEnemy(enemy, id, aiType, lvl, x, vx, t) ==
    [enemy EXCEPT !.id = id, !.position = <<x, -50>>, !.aiType = aiType,
                  !.velocity = <<vx, enemySpeed(aiType, lvl)>>,
                  !.health = enemyHealth(aiType), !.damage = enemyDamage(aiType),
                  !.size = enemySize(aiType), !.active = TRUE,
                  !.spawnTime = DateNow(t)]

ReusePool == IF hist.last.kind = "bullet" THEN bulletPool ELSE enemyPool

ReuseCommit(p, op, obj, h) ==
    /\ CommitObs(IF hist.last.kind = "bullet" THEN [World EXCEPT !.bulletPool = p]
                 ELSE [World EXCEPT !.enemyPool = p], op,
                 [op |-> op, kind |-> hist.last.kind, obj |-> obj, heap |-> h])
    /\ UNCHANGED <<keys, now, lastTime>>

\* pool.get(): hist.last.obj is the instance returned, as it is returned
ReuseGet ==
    /\ getObj(ReusePool) <= MaxReused
    /\ ReuseCommit(get(ReusePool), "get", getObj(ReusePool), hist.last.heap)

\* the caller of get() fills the instance in
ReuseFill(aiType) ==
    /\ hist.last.op = "get"
    /\ LET obj == hist.last.obj
           inst == hist.last.heap[obj]
       IN ReuseCommit(ReusePool, "fill", obj,
            [hist.last.heap EXCEPT ![obj] =
                IF hist.last.kind = "bullet" THEN fillPlayerBullet(inst, obj, 400, 480)
                ELSE fillEnemy(inst, obj, aiType, 1, 400, 0, now)])

\* pool.release(obj): resetFn runs only when obj is in the active list
ReuseRelease(obj) ==
    /\ ReuseCommit(release(ReusePool, obj), "release", obj,
            IF indexOf(ReusePool.active, obj) # 0
            THEN [hist.last.heap EXCEPT ![obj] =
                    IF hist.last.kind = "bullet" THEN resetBullet(@) ELSE resetEnemy(@)]
            ELSE hist.last.heap)

InitReuse ==
    \E kind \in {"bullet", "enemy"} :
        InitWorld(Mounted,
            [NoHist EXCEPT !.last =
                [op |-> "mount", kind |-> kind, obj |-> 0,
                 heap |-> [o \in 1..MaxReused |->
                             IF kind = "bullet" THEN createBullet ELSE createEnemyInstance]]])

NextReuse ==
    \/ ReuseGet
    \/ \E aiType \in {"straight", "circling"} : ReuseFill(aiType)
    \/ \E obj \in 1..MaxReused : ReuseRelease(obj)

SpecReuse == InitReuse /\ [][NextReuse]_vars

----------------------------------------------------------------------------
(* The enemy system on its own: each frame the loop calls                  *)
(* updateDifficulty, spawnEnemies and updateEnemyShooting; nothing culls   *)
(* or kills, so every enemy stays alive.                                   *)

\* levels the enemy specification starts from
EnemyLevels == {1, 4, 6, 15}

\* gameLoop's calls into the enemy system; level and enemies are those the
\* loop closure holds
EnemiesFrame ==
    /\ isRunning /\ ~isPaused
    /\ now + FrameMs <= MaxNow
    /\ now' = now + FrameMs
    /\ lastTime' = now'
    /\ \E aiType \in possibleTypes(level) :
         LET w4 == updateDifficulty(World, level)
             w5 == spawnEnemies(w4, now', level, aiType,
                                {enemies[i].id : i \in 1..Len(enemies)})
         IN Commit(updateEnemyShooting(w5, enemies, now'), "enemies")
    /\ UNCHANGED keys

\* a running session at some level, with one enemy of any kind created at
\* page load
InitEnemies ==
    \E lvl \in EnemyLevels, aiType \in Range(AiTypes) :
        InitWorld(createEnemy(updateDifficulty([startGame(Mounted) EXCEPT !.level = lvl], lvl),
                              lvl, aiType, {}, 0),
                  NoHist)

NextEnemies == EnemiesFrame

SpecEnemies == InitEnemies /\ [][NextEnemies]_vars

----------------------------------------------------------------------------
(* Enemy movement.  JavaScript objects have identity: hist.last.heap is    *)
(* the sequence of enemy objects ever allocated (an object is its index),  *)
(* hist.last.store the store's enemies array and hist.last.captured the    *)
(* array the gameLoop closure holds, both as sequences of objects.         *)
(* Positions are in 1/1000 px, so that velocity (px/s) * deltaTime (ms) is *)
(* an integer; only the y axis is followed.                                *)

\* most enemies alive at once in the movement specification
MaxMoving == 2

\* an updateEntities() that moves the store's enemy objects in place
updateEntitiesInPlace(m, deltaTime) ==
    LET moved == [r \in 1..Len(m.heap) |->
                    IF r \in Range(m.store)
                    THEN [m.heap[r] EXCEPT !.y = @ + (m.heap[r].vy * deltaTime)]
                    ELSE m.heap[r]]
    IN [m EXCEPT !.heap = moved,
                 !.store = SelectSeq(m.store, LAMBDA r : moved[r].y < (gameHeight + 100) * 1000
                                                          /\ moved[r].active)]

\* updateEntities(deltaTime), enemies: every enemy of the store is replaced
\* by a new object with the moved position; those past height + 100 or
\* inactive are dropped
updateEntitiesMove(m, deltaTime) ==
    LET n == Len(m.heap)
        copies == [k \in 1..Len(m.store) |->
                     [m.heap[m.store[k]] EXCEPT !.y = @ + (m.heap[m.store[k]].vy * deltaTime)]]
        keep == {k \in 1..Len(m.store) : copies[k].y < (gameHeight + 100) * 1000
                                          /\ copies[k].active}
    IN [m EXCEPT !.heap = m.heap \o copies,
                 !.store = SelectSeq([k \in 1..Len(m.store) |-> n + k],
                                     LAMBDA r : (r - n) \in keep)]

\* createEnemy: a new object at y = -50, appended to the store's array
addMovingEnemy(m, vy) ==
    [m EXCEPT !.heap = Append(m.heap, [id |-> Len(m.heap) + 1, y |-> 0 - 50000, vy |-> vy,
                                       active |-> TRUE]),
              !.store = Append(m.store, Len(m.heap) + 1)]

\* EnemySystem.updateEnemies(enemies, deltaTime, ...): moves the objects of
\* the array it is given and removes from the store, by id, those that are
\* now off-screen
RECURSIVE updateEnemiesMove(_, _, _)
updateEnemiesMove(m, captured, deltaTime) ==
    IF captured = <<>> THEN m
    ELSE LET r == Head(captured)
             y == m.heap[r].y + (m.heap[r].vy * deltaTime)
             off == y > (gameHeight + 100) * 1000
             m1 == [m EXCEPT !.heap[r].y = y,
                             !.heap[r].active = IF off THEN FALSE ELSE @]
             m2 == IF off
                   THEN [m1 EXCEPT !.store = SelectSeq(m1.store,
                                        LAMBDA s : m1.heap[s].id # m1.heap[r].id)]
                   ELSE m1
         IN updateEnemiesMove(m2, Tail(captured), deltaTime)

\* one cycle of gameLoop as far as enemies move: updateEntities, spawnEnemies
\* (spawn: whether one is due), updateEnemies on the closure's array; then
\* React renders and the next callback holds the store's array (rendered),
\* or the old callback runs once more
MoveFrame ==
    /\ now + FrameMs <= MaxNow
    /\ now' = now + FrameMs
    /\ lastTime' = now'
    /\ \E spawn \in BOOLEAN, rendered \in BOOLEAN, vy \in {55, 90} :
         LET deltaTime == now' - lastTime
             m1 == updateEntitiesMove(hist.last, deltaTime)
             m2 == IF spawn /\ Len(m1.store) < MaxMoving THEN addMovingEnemy(m1, vy) ELSE m1
             m3 == updateEnemiesMove(m2, hist.last.captured, deltaTime)
         IN CommitObs(World, "move",
                      [m3 EXCEPT !.captured = IF rendered THEN m3.store ELSE @])
    /\ UNCHANGED keys

\* a running session with one enemy, somewhere between the top and the
\* bottom margin, held by the store and by the closure
InitMove ==
    \E y \in {0 - 50000, 300000, 650000}, vy \in {55, 90} :
        InitWorld(startGame(Mounted),
                  [NoHist EXCEPT !.last =
                      [heap |-> <<[id |-> 1, y |-> y, vy |-> vy, active |-> TRUE]>>,
                       store |-> <<1>>, captured |-> <<1>>]])

NextMove == MoveFrame

SpecMove == InitMove /\ [][NextMove]_vars

----------------------------------------------------------------------------
(* AudioPool.  hist.last holds the pool: pool (the available instances, an *)
(* array), active (activeInstances, a Set in insertion order), playing     *)
(* (the instances Howler is playing) and pending (stop events Howler has   *)
(* queued for delivery).  Whether Howler calls onstop inside stop() or     *)
(* from a later task is the library's choice: both are followed.           *)

\* instances of an AudioPool (scaled down from 3 / 5)
AudioPoolSize == 2
\* most stop events queued at once
MaxPending == 2

\* initializePool()
initializePool ==
    [pool |-> [i \in 1..AudioPoolSize |-> i], active |-> <<>>, playing |-> {},
     pending |-> <<>>]

\* releaseToPool(sound)
releaseToPool(a, sound) ==
    [a EXCEPT !.active = SelectSeq(@, LAMBDA s : s # sound),
              !.pool = IF Len(a.pool) < AudioPoolSize THEN Append(a.pool, sound) ELSE a.pool]

\* playInstance(sound, options)
playInstance(a, sound) ==
    [a EXCEPT !.active = IF sound \in Range(a.active) THEN a.active ELSE Append(a.active, sound),
              !.playing = @ \cup {sound}]

\* Howl.stop(): the sound stops; onstop runs at once (sync) or is queued
howlStop(a, sound, sync) ==
    IF sound \notin a.playing THEN a
    ELSE LET a1 == [a EXCEPT !.playing = @ \ {sound}]
         IN IF sync THEN releaseToPool(a1, sound)
            ELSE [a1 EXCEPT !.pending = Append(@, sound)]

\* play(options)
audioPlay(a, sync) ==
    IF Len(a.pool) > 0
    THEN playInstance([a EXCEPT !.pool = SubSeq(@, 1, Len(@) - 1)], a.pool[Len(a.pool)])
    ELSE IF Len(a.active) > 0
         THEN playInstance(howlStop(a, a.active[1], sync), a.active[1])
         ELSE a

\* getStatus()
getStatus(a) ==
    [available |-> Len(a.pool), active |-> Len(a.active),
     total |-> Len(a.pool) + Len(a.active)]
AudioCommit(a, op) ==
    /\ CommitObs(World, op, a)
    /\ UNCHANGED <<keys, now, lastTime>>

\* a caller plays the pooled sound
AudioPlay ==
    \E sync \in BOOLEAN :
        /\ sync \/ Len(hist.last.pending) < MaxPending
        /\ AudioCommit(audioPlay(hist.last, sync), "play")

\* a playing instance reaches its end: Howler calls onend
AudioEnd ==
    \E sound \in hist.last.playing :
        AudioCommit(releaseToPool([hist.last EXCEPT !.playing = @ \ {sound}], sound), "onend")

\* Howler delivers a queued stop event: onstop
AudioStopDelivered ==
    /\ hist.last.pending # <<>>
    /\ AudioCommit(releaseToPool([hist.last EXCEPT !.pending = Tail(@)],
                                 Head(hist.last.pending)), "onstop")

InitAudio == InitWorld(Mounted, [NoHist EXCEPT !.last = initializePool])

NextAudio == AudioPlay \/ AudioEnd \/ AudioStopDelivered

SpecAudio == InitAudio /\ [][NextAudio]_vars

----------------------------------------------------------------------------
(* Properties *)

\* the game state of the store and its systems, without clocks and history
gameState ==
    <<isRunning, isPaused, score, lives, level, gameTime, player, enemies, bullets,
      keys, enemyPool, bulletPool, timers, lastShotTime, lastSpawnTime, spawnInterval>>

\* C1: for a pool, after any sequence of get(), release() and releaseAll(),
\* the in-use instances plus the free instances never exceed maxSize
C1_PoolWithinMax ==
    getStats(enemyPool).activeSize + getStats(enemyPool).poolSize <= PoolMaxSize

\* C2: after any sequence of get(), release() and releaseAll(), also with a
\* double or a foreign release, no instance is both free and active and none
\* occurs twice in either list
C2_NoDuplicateInstance ==
    LET all == enemyPool.pool \o enemyPool.active
    IN \A i, j \in 1..Len(all) : i # j => all[i] # all[j]

\* a release of an instance that is already on the free list, with instances
\* still in use
C2_Witness ==
    /\ hist.last # NULL /\ hist.last.op = "release" /\ ~hist.last.held
    /\ hist.last.obj \in Range(enemyPool.pool)
    /\ enemyPool.active # <<>>

\* C3: resetGame() leaves score 0, level 1, the initial lives, no enemies and
\* no bullets, and both pools with an active count of 0
C3_ResetRestoresAll ==
    [][ResetGame =>
          /\ score' = 0 /\ level' = 1 /\ lives' = initialLives
          /\ enemies' = <<>> /\ bullets' = <<>>
          /\ Len(enemyPool'.active) = 0 /\ Len(bulletPool'.active) = 0]_vars

\* C4: between any two steps of the game the player has 0 <= health <=
\* maxHealth and 0 <= shieldHealth <= maxShieldHealth
C4_HealthBounds ==
    player # NULL =>
        /\ 0 <= player.health /\ player.health <= playerMaxHealth
        /\ 0 <= player.shieldHealth /\ player.shieldHealth <= shieldMaxHealth

\* the player destroyed after its shield was breached
C4_Witness ==
    /\ player # NULL /\ player.health = 0 /\ lives < initialLives - 1
    /\ player.shieldHealth > 0 /\ player.shieldHealth <= shieldMaxHealth - Pts(10)

\* C5: the level is floor(score / 1000) + 1 in every state, and five
\* 200-point kills from score 0 leave level 2
C5_LevelFromScore ==
    /\ 1000 * (level - 1) <= score /\ score < 1000 * level
    /\ hist.last.run = 5 => level = 2

\* five 200-point kills in a row from score 0
C5_Witness == hist.last.run = 5 /\ score = 1000 /\ level = 2

\* C6: pauseGame() leaves the session paused, and on a session that is
\* already paused it changes nothing
C6_PauseIdempotent ==
    [][PauseGame => (isPaused' /\ (isPaused => UNCHANGED gameState))]_vars

\* a pauseGame() on a session that was already paused
C6_Witness == hist.pausedAgain /\ isPaused

\* C7: startGame() on a running session, pauseGame() on a session that is not
\* running and resumeGame() on a session that is not paused change nothing,
\* and no state is paused but not running
C7_InvalidTransitionNoOp ==
    [][/\ (StartGame /\ isRunning) => UNCHANGED gameState
       /\ (PauseGame /\ ~isRunning) => UNCHANGED gameState
       /\ (ResumeGame /\ ~isPaused) => UNCHANGED gameState
       /\ isPaused' => isRunning']_vars

\* C8: after the session has ended with lives 0 it is not running again
\* until resetGame() has run
C8_GameOverTerminal == hist.gameOver => ~isRunning

\* C9: while the session is paused or not running, no step other than
\* resetGame() changes gameTime, the player, the enemies, the bullets, the
\* score or the lives
C9_IdleNoMutation ==
    [][((isPaused \/ ~isRunning) /\ ~ResetGame) =>
          UNCHANGED <<gameTime, player, enemies, bullets, score, lives>>]_vars

\* C10: a hit of damage d on a player whose shield is up takes min(d,
\* shieldHealth) from the shield and the rest from health; with the shield
\* down it takes d from health
C10_ShieldAbsorbsHit ==
    hist.last # NULL =>
        LET d == hist.last.d
            absorbed == IF hist.last.shieldHealth > 0 THEN Min(d, hist.last.shieldHealth) ELSE 0
        IN /\ player.shieldHealth = hist.last.shieldHealth - absorbed
           /\ player.health = Max(0, hist.last.health - (d - absorbed))

C12_RegenRespectsDelay ==
    [][(DateNow(now') - player'.lastShieldDamageTime < shieldRegenDelay) =>
          player'.shieldHealth <= player.shieldHealth]_vars

\* a frame has run inside the quiet period of a damaged, active shield
C12_Witness ==
    /\ hist.last # NULL /\ "breachers" \in DOMAIN hist.last /\ hist.last.breachers = {}
    /\ player.shieldActive /\ player.shieldHealth < shieldMaxHealth
    /\ DateNow(now) - player.lastShieldDamageTime < shieldRegenDelay
    /\ DateNow(now) - player.lastShieldDamageTime > 0

\* C13: a frame's shield update that finds the shield at 0, no enemy in the
\* shield zone and the regeneration delay elapsed raises shieldHealth above 0
\* and makes the shield active again
C13_DepletedShieldRecovers ==
    [][(/\ ShieldFrame
        /\ player.shieldHealth = 0
        /\ hist'.last.breachers = {}
        /\ DateNow(now') - player.lastShieldDamageTime >= shieldRegenDelay) =>
          (player'.shieldHealth > 0 /\ player'.shieldActive)]_vars

OverlapOn(a, b, axis) ==
    Min(Half(a.position[axis]) + a.size[axis], Half(b.position[axis]) + b.size[axis])
      - Max(Half(a.position[axis]) - a.size[axis], Half(b.position[axis]) - b.size[axis])

\* C15: checkEntityCollision is true when the two boxes overlap by a positive
\* area, false when they are at least 1 unit apart on some axis, and the same
\* for (a, b) and (b, a)
C15_CollisionCorrect ==
    hist.last.op = "checkEntityCollision" =>
        LET a == hist.last.a
            b == hist.last.b
        IN /\ (OverlapOn(a, b, "x") > 0 /\ OverlapOn(a, b, "y") > 0) => hist.last.ab
           /\ (OverlapOn(a, b, "x") <= - Half(1) \/ OverlapOn(a, b, "y") <= - Half(1))
                 => ~hist.last.ab
           /\ hist.last.ab = hist.last.ba

\* two boxes that overlap on x and are exactly 1 unit apart on y were tested
C15_Witness ==
    /\ hist.last.op = "checkEntityCollision"
    /\ OverlapOn(hist.last.a, hist.last.b, "x") > 0
    /\ OverlapOn(hist.last.a, hist.last.b, "y") = - Half(1)
    /\ ~hist.last.ab

\* C16: after a retrieve, every inserted entity whose box overlaps the
\* query's box is among the entities retrieved
C16_RetrieveSuperset ==
    hist.last.op = "retrieve" =>
        \A i \in 1..Len(hist.last.inserted) :
            checkEntityCollision(hist.last.inserted[i], hist.last.query) =>
                \E j \in 1..Len(hist.last.found) : hist.last.found[j] = hist.last.inserted[i]

\* C17: after updateDifficulty(level) the spawn interval is
\* max(500, 2000 - level*100): 1500 for level 5, 500 for level 20, never
\* below 500, and not larger than after a call with a lower level
C17_SpawnIntervalScaling ==
    hist.last.op = "updateDifficulty" =>
        /\ spawnInterval = Max(500, 2000 - hist.last.level * 100)
        /\ spawnInterval >= 500
        /\ hist.last.level = 5 => spawnInterval = 1500
        /\ hist.last.level = 20 => spawnInterval = 500
        /\ (hist.last.prevOp = "updateDifficulty" /\ hist.last.prevLevel <= hist.last.level)
              => spawnInterval <= hist.last.prevInterval

\* updateDifficulty(5) gave 1500 and updateDifficulty(20) after it gave 500
C17_Witness ==
    /\ hist.last.op = "updateDifficulty" /\ hist.last.prevOp = "updateDifficulty"
    /\ hist.last.prevLevel = 5 /\ hist.last.prevInterval = 1500
    /\ hist.last.level = 20 /\ spawnInterval = 500

\* sum of f over the finite set S
RECURSIVE SumOver(_, _)
SumOver(f, S) ==
    IF S = {} THEN 0
    ELSE LET x == CHOOSE y \in S : TRUE IN f[x] + SumOver(f, S \ {x})

\* the enemies of the observed pass whose health the player bullets found on
\* them bring to 0 or below
KilledByBullets ==
    {j \in 1..Len(hist.last.enemies) :
        SumOver([i \in 1..Len(hist.last.bullets) |-> hist.last.bullets[i].damage],
                {i \in 1..Len(hist.last.bullets) : <<i, j>> \in hist.last.hitBE})
          >= hist.last.enemies[j].health}

\* C18: after a pass without contacts, exactly the enemies whose health the
\* player bullets brought to 0 or below have left the live enemies, and the
\* score has grown by the points of each of them, counted once: straight 100,
\* zigzag 150, seeking 200, circling 250
C18_KillScoredOnce ==
    (hist.last # NULL /\ hist.last.hitPE = {}) =>
        /\ {enemies[k].id : k \in 1..Len(enemies)}
             = {hist.last.enemies[j].id : j \in (1..Len(hist.last.enemies)) \ KilledByBullets}
        /\ score = hist.last.score
                    + SumOver([j \in 1..Len(hist.last.enemies) |->
                                 CASE hist.last.enemies[j].aiType = "straight" -> 100
                                   [] hist.last.enemies[j].aiType = "zigzag" -> 150
                                   [] hist.last.enemies[j].aiType = "seeking" -> 200
                                   [] hist.last.enemies[j].aiType = "circling" -> 250],
                              KilledByBullets)

\* both player bullets hit a damaged circling enemy, a third hit the other
\* enemy without killing it: 250 points, one enemy left
C18_Witness ==
    /\ hist.last # NULL /\ hist.last.hitPE = {}
    /\ KilledByBullets = {1} /\ hist.last.enemies[1].aiType = "circling"
    /\ Cardinality(hist.last.hitBE) = 3
    /\ score = hist.last.score + 250 /\ Len(enemies) = 1

\* C19: in a pass without enemy bullets on the player, in which every enemy
\* that overlaps the player was killed by player bullets, the player's health
\* and the lives are as before the pass
C19_DeadEnemyNoContact ==
    (hist.last # NULL /\ hist.last.hitBP = {} /\ hist.last.hitPE \subseteq KilledByBullets) =>
        (player.health = hist.last.health /\ lives = hist.last.lives)

\* an enemy overlapping the player was killed by a bullet in the same pass
C19_Witness ==
    /\ hist.last # NULL /\ hist.last.hitBP = {}
    /\ hist.last.hitPE # {} /\ hist.last.hitPE \subseteq KilledByBullets
    /\ player.health = hist.last.health

\* C20: a pass in which the player's health reaches 0 takes exactly one life,
\* and the session is running after it exactly if a life remains
C20_DestructionTakesOneLife ==
    (hist.last # NULL /\ hist.last.health > 0 /\ player.health = 0) =>
        /\ lives = hist.last.lives - 1
        /\ isRunning <=> lives > 0

\* C21: the respawn callback of a destruction with lives remaining leaves the
\* player with full health, a full and active shield, and at the spawn point
C21_RespawnRestoresPlayer ==
    [][RespawnTimer =>
          /\ player'.health = playerMaxHealth
          /\ player'.pos = "spawn"
          /\ player'.shieldHealth = shieldMaxHealth /\ player'.shieldActive]_vars

\* C22: while a respawn is pending in a running session, a step other than the
\* respawn changes neither the player's health and shield nor the lives
C22_NoChangeWhileRespawning ==
    [][(timers # <<>> /\ isRunning /\ ~RespawnTimer) =>
          /\ player'.health = player.health
          /\ player'.shieldHealth = player.shieldHealth
          /\ lives' = lives]_vars

\* C23: after every step the player is either Active (shieldHealth > 0, not
\* shield-down) or Down (shieldHealth = 0, shield-down), and a step that
\* brings shieldHealth from above 0 to 0 leaves the player shield-down with
\* the time of that frame as its last shield damage
C23_ShieldStateMachine ==
    [][/\ \/ player'.shieldHealth > 0 /\ ~player'.shieldDown
          \/ player'.shieldHealth = 0 /\ player'.shieldDown
       /\ (player.shieldHealth > 0 /\ player'.shieldHealth = 0) =>
             (player'.shieldDown /\ player'.lastShieldDamageTime = DateNow(now'))]_vars

\* C24: an animation callback on a running, unpaused session advances the
\* game time once, by the time elapsed since the callback before it
C24_DeltaSincePreviousCallback ==
    [][Frame => gameTime' = gameTime + (now' - now)]_vars

\* C25: at most one animation-frame request is outstanding, and no animation
\* frame runs the update cycle more than once
C25_SingleLoop ==
    Len(hist.last.requests) <= 1 /\ hist.last.cycles <= 1

\* a frame has run an update cycle, the effect has been re-run for the new
\* gameLoop, and one request is outstanding
C25_Witness ==
    /\ hist.last.cycles = 1 /\ Len(hist.last.requests) = 1
    /\ isRunning /\ ~isPaused /\ gameTime > 0

\* the steps of an update cycle in the order the cycle must take them
CycleOrder ==
    <<"updateGameTime", "updateEntities", "updatePlayer", "updateDifficulty",
      "spawnEnemies", "updateEnemies", "updateEnemyShooting", "collisionSystem.update",
      "shieldSystem.update", "cleanupInactiveEntities">>

\* C26: an animation frame that ran one update cycle made every step of the
\* cycle once and in order: time, integration, player movement and shooting,
\* difficulty, enemy spawn, AI and shooting, collision resolution, shield
\* regeneration and breach handling, release of inactive entities
C26_CycleOrder ==
    (hist.last.op = "frame" /\ hist.last.cycles = 1) =>
        SelectSeq(hist.last.calls, LAMBDA c : c \in Range(CycleOrder)) = CycleOrder

\* C27: at the end of every update cycle each pool's active list holds
\* exactly the live entities of its kind: every enemy or bullet that left the
\* live collections during the cycle was released (stated on the numbers of
\* leased instances and of live pooled entities, from a state where they
\* agree)
PoolsMatchLive ==
    /\ Len(enemyPool.active) = Len(enemies)
    /\ Len(bulletPool.active) = Len(SelectSeq(bullets, LAMBDA b : b.owner = "player"))

C27_LeaversReleased == [][(Frame /\ PoolsMatchLive) => PoolsMatchLive']_vars

\* C28: the instance get() returns has, in every field, the value a freshly
\* created instance has, whatever it was used for before its release
C28_ReleaseResetsAll ==
    hist.last.op = "get" =>
        hist.last.heap[hist.last.obj] =
            (IF hist.last.kind = "bullet" THEN createBullet ELSE createEnemyInstance)

\* C29: a shield update in which one enemy breaches an active shield lowers
\* shieldHealth (not below 0) by the base damage of the enemy's AI kind
\* (straight 8, zigzag 12, seeking 15, circling 18) plus a depth bonus
\* floor(penetrationDepth / 10), and the score by twice that damage
C29_BreachDamageByKind ==
    [][(/\ ShieldFrame
        /\ player.shieldActive
        /\ Cardinality(hist'.last.breachers) = 1) =>
          \E d \in 0..MaxDepthBonus :
            LET j == CHOOSE i \in 1..Len(enemies) : enemies[i].id \in hist'.last.breachers
                damage == getDefaultShieldDamage(enemies[j].aiType) + d
            IN /\ hist'.last.afterShieldHealth = Max(0, player.shieldHealth - Pts(damage))
               /\ hist'.last.afterScore = score - (damage * 2)]_vars

C31_SpawnGatedAndStamped ==
    [][(now' > now) =>
          /\ Len(enemies') <= Len(enemies) + 1
          /\ Len(enemies') = Len(enemies) => lastSpawnTime' = lastSpawnTime
          /\ Len(enemies') = Len(enemies) + 1 =>
                /\ now' - lastSpawnTime >= spawnInterval'
                /\ lastSpawnTime' = now'
                /\ SubSeq(enemies', 1, Len(enemies)) = enemies
                /\ enemies'[Len(enemies')].active
                /\ enemies'[Len(enemies')].spawnTime = now']_vars

\* C32: a seeking (circling) enemy that has been alive for the minimum time
\* since spawn, 1000 ms, plus its shooting interval, 2000 (3000) ms, has
\* emitted an enemy-owned bullet; straight and zigzag enemies emit none
C32_ShootersFire ==
    /\ \A i \in 1..Len(enemies) :
          (/\ enemies[i].aiType \in {"seeking", "circling"}
           /\ DateNow(now) - enemies[i].spawnTime >=
                1000 + (IF enemies[i].aiType = "seeking" THEN 2000 ELSE 3000)) =>
             \E j \in 1..Len(bullets) : bullets[j].owner = "enemy"
    /\ (\A i \in 1..Len(enemies) : enemies[i].aiType \in {"straight", "zigzag"}) =>
          bullets = <<>>

C34_BulletHitsOneEnemy ==
    (/\ hist.last # NULL /\ hist.last.hitPE = {}
     /\ Len(enemies) = Len(hist.last.enemies)) =>
        SumOver([j \in 1..Len(enemies) |-> hist.last.enemies[j].health - enemies[j].health],
                1..Len(enemies))
          <= SumOver([i \in 1..Len(hist.last.bullets) |-> hist.last.bullets[i].damage],
                     {i \in 1..Len(hist.last.bullets) :
                        \E j \in 1..Len(hist.last.enemies) : <<i, j>> \in hist.last.hitBE})

\* C35: after a collision pass the player's health is its health before the
\* pass minus the damages of all enemy bullets and all live enemies that hit
\* the player in the pass, not below 0
C35_HitsAccumulate ==
    hist.last # NULL =>
        player.health =
            Max(0, hist.last.health
                     - SumOver([i \in 1..Len(hist.last.bullets) |-> hist.last.bullets[i].damage],
                               hist.last.hitBP)
                     - SumOver([j \in 1..Len(hist.last.enemies) |-> hist.last.enemies[j].damage],
                               hist.last.hitPE \ KilledByBullets))

\* C36: a respawn callback that fires in a session without a destruction
\* (lives = initialLives: the callback was scheduled before the last
\* resetGame) changes neither the health nor the position of the player
C36_RespawnDiesWithSession ==
    [][(RespawnTimer /\ lives = initialLives) =>
          (player'.health = player.health /\ player'.pos = player.pos)]_vars

\* C37: in one update cycle the position of every enemy that is live before
\* and after it advances by velocity * deltaTime, once
C37_EnemyMovesOnce ==
    [][(now' > now) =>
          \A r \in Range(hist.last.store), s \in Range(hist'.last.store) :
             hist.last.heap[r].id = hist'.last.heap[s].id =>
                hist'.last.heap[s].y =
                    hist.last.heap[r].y + (hist.last.heap[r].vy * (now' - lastTime))]_vars

\* an enemy has been live for two cycles while the closure held the store's
\* array of the cycle before
C37_Witness ==
    /\ hist.last # NULL /\ now >= 2 * FrameMs
    /\ hist.last.captured = hist.last.store
    /\ \E s \in Range(hist.last.store) :
          hist.last.heap[s].id = 1 /\ hist.last.heap[s].y > 0

\* C38: the level is at least 1 in every state, whatever kills and breach
\* penalties have been applied to the score
C38_LevelAtLeastOne == level >= 1

\* C39: in an AudioPool no instance is at once among the available
\* instances and in the active set, and available + active never exceeds the
\* pool size
C39_AudioPoolConserved ==
    /\ Range(hist.last.pool) \cap Range(hist.last.active) = {}
    /\ getStatus(hist.last).total <= AudioPoolSize

====
